---- MODULE Spec2Model ----
(***************************************************************************)
(* A model of the revision walker (src/src/revwalk.c) and of the object    *)
(* cache (src/src/cache.c) of libgit2.                                     *)
(*                                                                         *)
(* Spec       the revision walker driven through its public API            *)
(* SpecMerge  git_merge_base applied to every pair of commits of a DAG     *)
(* SpecCache  the object cache used by several threads                     *)
(***************************************************************************)
EXTENDS Integers, Sequences, FiniteSets, TLC

(* ------------------------------ bounds --------------------------------- *)
\* commits of the object database the walker runs on
NumCommits == 3
\* commits of the object database git_merge_base runs on
NumMergeCommits == 4
\* committer times are drawn from 1..MaxTime
MaxTime == 3
\* parents per commit
MaxParents == 2
\* git_revwalk_push / git_revwalk_hide calls per configuration
MaxTips == 2
\* threads using the cache
NumThreads == 2
\* entries allocated over a run of the cache
NumEntries == 3
\* object ids the entries are drawn from
NumOids == 2
\* references to one entry a thread holds at a time
MaxRefs == 1
\* iterations of one walker
MaxRuns == 2
\* values of a hex digit of an OID (16 in git)
NumHexDigits == 2
\* hex digits of an OID (GIT_OID_HEXSZ, 40 in git)
OidLen == 4
\* hex digits of the shortest prefix looked up (GIT_OID_MINPREFIXLEN): one byte
MinPrefixLen == 2
\* objects of one pack index
MaxObjects == 3
\* the mtime of the pack directory runs from 1 to MaxMtime
MaxMtime == 3
\* the entries of a tree at most
MaxTreeEntries == 2
\* the files of a diff list, the hunks of a file, the lines of a hunk at most
MaxFiles == 2
MaxHunks == 2
MaxLines == 2

VARIABLES
    parents,      \* object database: commit -> sequence of parent commits
    ctime,        \* object database: commit -> committer time
    commits,      \* walk->commits: commit -> commit_object
    walk,         \* struct git_revwalk
    emitted,      \* the OIDs git_revwalk_next returned in the current run
    hidden,       \* the OIDs passed to git_revwalk_hide
    pushed,       \* the OIDs passed to git_revwalk_push
    lastrc,       \* the return code of the last API call
    mb,           \* arguments and result of the last git_merge_base call
    objects,      \* the git_cached_obj of every entry allocated so far
    cache,        \* struct git_cache: map, used_memory, lock
    pc,           \* thread -> where it stands in cache_store / cache_get
    targ,         \* thread -> the arguments of the call it is in
    refs,         \* thread -> entry -> references the thread was given
    last,         \* the cache operation that completed last
    start,        \* the walker as the current iteration found it
    runs,         \* the iterations that ended: how, and the OIDs they returned
    dir,          \* the pack directory: its files and its mtime
    backend,      \* struct pack_backend, and the packs the last query examined
    query,        \* the last query of the pack backend and its result
    enomem,       \* whether memory allocation fails at present
    diff,         \* the iterators, the options and the git_diff_list being built
    foreach       \* diff_foreach_via_iterator: its position and its callbacks

walkvars  == <<parents, ctime, commits, walk, emitted, hidden, pushed, lastrc, mb>>
cachevars == <<objects, cache, pc, targ, refs, last>>
runvars   == <<start, runs>>
packvars  == <<dir, backend, query, enomem>>
diffvars  == <<diff, foreach>>
vars == <<walkvars, cachevars, runvars, packvars, diffvars>>

NoCommit == 0
Times == 1..MaxTime
\* mb before any git_merge_base call
NoMerge == [one |-> NoCommit, two |-> NoCommit, rc |-> "none", out |-> NoCommit]

(* ------------------------- sequences helpers --------------------------- *)
Range(s) == {s[i] : i \in 1..Len(s)}

\* sequences over S without repetition, of length at most n
RECURSIVE SeqsUpTo(_, _)
SeqsUpTo(S, n) ==
    IF n = 0 THEN {<<>>}
    ELSE LET shorter == SeqsUpTo(S, n - 1)
         IN  shorter \cup {Append(s, x) : s \in {q \in shorter : Len(q) = n - 1},
                                          x \in S}

NoRepeat(s) == \A i, j \in 1..Len(s) : i # j => s[i] # s[j]

\* every DAG over 1..n, commit i having its parents among 1..i-1
RECURSIVE Dags(_)
Dags(n) ==
    IF n = 0 THEN {<<>>}
    ELSE {Append(d, ps) : d \in Dags(n - 1),
                          ps \in {q \in SeqsUpTo(1..(n - 1), MaxParents) : NoRepeat(q)}}

Commits == 1..NumCommits

(* ------------------------ src/src/revwalk.c ---------------------------- *)
PARENT1 == {"PARENT1"}
PARENT2 == {"PARENT2"}
RESULT  == {"RESULT"}
STALE   == {"STALE"}

\* a commit_object as calloc leaves it (alloc_commit)
commit_object ==
    [seen |-> FALSE, uninteresting |-> FALSE, topo_delay |-> FALSE,
     parsed |-> FALSE, flags |-> {}, in_degree |-> 0]

\* commit->parents[0 .. out_degree-1]: empty until the commit is parsed
commit_parents(cs, c) == IF cs[c].parsed THEN parents[c] ELSE <<>>

\* commit_time_cmp with the comparison turned round
commit_time_cmp_older(a, b) == IF ctime[a] > ctime[b] THEN 1 ELSE 0

commit_time_cmp(a, b) == IF ctime[a] < ctime[b] THEN 1 ELSE 0

commit_list_insert(item, list) == <<item>> \o list

commit_list_insert_by_date(item, list) ==
    LET stops == {i \in 1..Len(list) : commit_time_cmp(list[i], item) < 0}
        pos   == IF stops = {} THEN Len(list) + 1
                 ELSE CHOOSE i \in stops : \A j \in stops : i <= j
    IN  SubSeq(list, 1, pos - 1) \o <<item>> \o SubSeq(list, pos, Len(list))

commit_parse(cs, c) == [cs EXCEPT ![c].parsed = TRUE]

\* interesting(list) # NULL
interesting(cs, list) == \E i \in 1..Len(list) : cs[list[i]].flags \cap STALE = {}

\* the loop over commit->parents of merge_bases_many; st = [cs, list]
RECURSIVE mb_parents(_, _, _, _)
mb_parents(st, ps, i, flags) ==
    IF i > Len(ps) THEN st
    ELSE LET p == ps[i]
         IN  IF flags \subseteq st.cs[p].flags
             THEN mb_parents(st, ps, i + 1, flags)
             ELSE LET cs1 == commit_parse(st.cs, p)
                      cs2 == [cs1 EXCEPT ![p].flags = @ \cup flags]
                  IN  mb_parents([cs |-> cs2,
                                  list |-> commit_list_insert_by_date(p, st.list)],
                                 ps, i + 1, flags)

\* mb_loop marking as RESULT a commit that carries either parent flag
RECURSIVE mb_loop_either(_, _, _)
mb_loop_either(cs, list, result) ==
    IF ~interesting(cs, list) THEN [cs |-> cs, result |-> result]
    ELSE LET commit == Head(list)
             next   == Tail(list)
             flags0 == cs[commit].flags \cap (PARENT1 \cup PARENT2 \cup STALE)
             both   == flags0 \cap STALE = {}
             fresh  == both /\ cs[commit].flags \cap RESULT = {}
             cs1    == IF fresh THEN [cs EXCEPT ![commit].flags = @ \cup RESULT]
                       ELSE cs
             res1   == IF fresh THEN commit_list_insert_by_date(commit, result)
                       ELSE result
             flags  == IF both THEN flags0 \cup STALE ELSE flags0
             st     == mb_parents([cs |-> cs1, list |-> next],
                                  commit_parents(cs1, commit), 1, flags)
         IN  mb_loop_either(st.cs, st.list, res1)

\* the while (interesting(list)) loop of merge_bases_many
RECURSIVE mb_loop(_, _, _)
mb_loop(cs, list, result) ==
    IF ~interesting(cs, list) THEN [cs |-> cs, result |-> result]
    ELSE LET commit == Head(list)
             next   == Tail(list)
             flags0 == cs[commit].flags \cap (PARENT1 \cup PARENT2 \cup STALE)
             both   == flags0 = (PARENT1 \cup PARENT2)
             fresh  == both /\ cs[commit].flags \cap RESULT = {}
             cs1    == IF fresh THEN [cs EXCEPT ![commit].flags = @ \cup RESULT]
                       ELSE cs
             res1   == IF fresh THEN commit_list_insert_by_date(commit, result)
                       ELSE result
             flags  == IF both THEN flags0 \cup STALE ELSE flags0
             st     == mb_parents([cs |-> cs1, list |-> next],
                                  commit_parents(cs1, commit), 1, flags)
         IN  mb_loop(st.cs, st.list, res1)

\* the insertion of the twos; st = [cs, list]
RECURSIVE mb_twos(_, _, _)
mb_twos(st, twos, i) ==
    IF i > Len(twos) THEN st
    ELSE LET two == twos[i]
             cs1 == commit_parse(st.cs, two)
             cs2 == [cs1 EXCEPT ![two].flags = @ \cup PARENT2]
         IN  mb_twos([cs |-> cs2, list |-> commit_list_insert_by_date(two, st.list)],
                     twos, i + 1)

\* the final filter of the stale results
RECURSIVE mb_filter(_, _, _)
mb_filter(cs, list, result) ==
    IF list = <<>> THEN result
    ELSE mb_filter(cs, Tail(list),
                   IF cs[Head(list)].flags \cap STALE = {}
                   THEN commit_list_insert_by_date(Head(list), result)
                   ELSE result)

\* merge_bases_many: the commit table afterwards and the list stored in *out
merge_bases_many(cs, one, twos) ==
    IF one \in Range(twos) THEN [cs |-> cs, out |-> <<one>>]
    ELSE LET cs1 == commit_parse(cs, one)
             cs2 == [cs1 EXCEPT ![one].flags = @ \cup PARENT1]
             st  == mb_twos([cs |-> cs2, list |-> commit_list_insert(one, <<>>)],
                            twos, 1)
             r   == mb_loop(st.cs, st.list, <<>>)
         IN  [cs |-> r.cs, out |-> mb_filter(r.cs, r.result, <<>>)]

\* git_merge_base on a new walker: return code and *out
git_merge_base(one, two) ==
    LET cs0 == [c \in DOMAIN parents |-> commit_object]
        r   == merge_bases_many(cs0, one, <<two>>)
    IN  IF r.out = <<>>
        THEN [one |-> one, two |-> two, rc |-> "GIT_ENOTFOUND", out |-> NoCommit]
        ELSE [one |-> one, two |-> two, rc |-> "GIT_SUCCESS", out |-> Head(r.out)]

GIT_SORT_TIME        == {"GIT_SORT_TIME"}
GIT_SORT_TOPOLOGICAL == {"GIT_SORT_TOPOLOGICAL"}
GIT_SORT_REVERSE     == {"GIT_SORT_REVERSE"}
SortModes == SUBSET (GIT_SORT_TIME \cup GIT_SORT_TOPOLOGICAL \cup GIT_SORT_REVERSE)

\* unsigned short in_degree
USHRT_RANGE == 65536

\* a walker as git_revwalk_new leaves it
git_revwalk_new ==
    [iterator_topo |-> <<>>, iterator_rand |-> <<>>, iterator_reverse |-> <<>>,
     iterator_time |-> {},
     get_next |-> "revwalk_next_unsorted", enqueue |-> "revwalk_enqueue_unsorted",
     walking |-> FALSE, sorting |-> {}, one |-> NoCommit, twos |-> <<>>]

\* git_pqueue_pop(&walk->iterator_time) may return x: no queued commit compares
\* higher than x under the queue's comparison function, commit_time_cmp
git_pqueue_pop(q) == {x \in q : \A y \in q : commit_time_cmp(x, y) = 0}

RECURSIVE mark_uninteresting(_, _)
RECURSIVE mark_uninteresting_parents(_, _, _)
mark_uninteresting_parents(cs, ps, i) ==
    IF i > Len(ps) THEN cs
    ELSE mark_uninteresting_parents(
             IF ~cs[ps[i]].uninteresting THEN mark_uninteresting(cs, ps[i]) ELSE cs,
             ps, i + 1)

mark_uninteresting(cs, commit) ==
    LET cs1 == [cs EXCEPT ![commit].uninteresting = TRUE]
    IN  IF cs1[commit].flags \cap (RESULT \cup STALE) = RESULT THEN cs1
        ELSE mark_uninteresting_parents(cs1, commit_parents(cs1, commit), 1)

revwalk_enqueue_timesort(w, commit) ==
    [w EXCEPT !.iterator_time = @ \cup {commit}]

revwalk_enqueue_unsorted(w, commit) ==
    [w EXCEPT !.iterator_rand = commit_list_insert(commit, @)]

\* walk->enqueue(walk, commit)
enqueue(w, commit) ==
    IF w.enqueue = "revwalk_enqueue_timesort"
    THEN revwalk_enqueue_timesort(w, commit)
    ELSE revwalk_enqueue_unsorted(w, commit)

\* process_commit without the test of commit->seen
process_commit_noseen(st, commit, hide) ==
    LET cs1 == IF hide THEN mark_uninteresting(st.cs, commit) ELSE st.cs
    IN  [cs |-> commit_parse([cs1 EXCEPT ![commit].seen = TRUE], commit),
         w  |-> enqueue(st.w, commit)]

\* st = [cs |-> the commit table, w |-> the walker]
process_commit(st, commit, hide) ==
    LET cs1 == IF hide THEN mark_uninteresting(st.cs, commit) ELSE st.cs
    IN  IF cs1[commit].seen THEN [st EXCEPT !.cs = cs1]
        ELSE [cs |-> commit_parse([cs1 EXCEPT ![commit].seen = TRUE], commit),
              w  |-> enqueue(st.w, commit)]

RECURSIVE process_commit_parents_from(_, _, _)
process_commit_parents_from(st, commit, i) ==
    LET ps == commit_parents(st.cs, commit)
    IN  IF i > Len(ps) THEN st
        ELSE process_commit_parents_from(
                 process_commit(st, ps[i], st.cs[commit].uninteresting), commit, i + 1)

process_commit_parents(st, commit) == process_commit_parents_from(st, commit, 1)

push_commit(st, oid, uninteresting) ==
    LET cs1 == [st.cs EXCEPT ![oid].uninteresting = uninteresting]
    IN  IF st.w.one = NoCommit /\ ~uninteresting
        THEN [cs |-> cs1, w |-> [st.w EXCEPT !.one = oid]]
        ELSE [cs |-> cs1, w |-> [st.w EXCEPT !.twos = Append(@, oid)]]

Over(st) == [st |-> st, rc |-> "GIT_EREVWALKOVER", out |-> NoCommit]
Found(st, c) == [st |-> st, rc |-> "GIT_SUCCESS", out |-> c]

\* the get_next functions return the set of their possible outcomes
RECURSIVE revwalk_next_timesort(_)
revwalk_next_timesort(st) ==
    IF st.w.iterator_time = {} THEN {Over(st)}
    ELSE UNION {
        LET st1 == [st EXCEPT !.w.iterator_time = @ \ {next}]
            st2 == process_commit_parents(st1, next)
        IN  IF ~st2.cs[next].uninteresting THEN {Found(st2, next)}
            ELSE revwalk_next_timesort(st2)
        : next \in git_pqueue_pop(st.w.iterator_time)}

\* revwalk_next_unsorted without process_commit_parents
RECURSIVE revwalk_next_unsorted_noparents(_)
revwalk_next_unsorted_noparents(st) ==
    IF st.w.iterator_rand = <<>> THEN {Over(st)}
    ELSE LET next == Head(st.w.iterator_rand)
             st1  == [st EXCEPT !.w.iterator_rand = Tail(@)]
         IN  IF ~st1.cs[next].uninteresting THEN {Found(st1, next)}
             ELSE revwalk_next_unsorted_noparents(st1)

RECURSIVE revwalk_next_unsorted(_)
revwalk_next_unsorted(st) ==
    IF st.w.iterator_rand = <<>> THEN {Over(st)}
    ELSE LET next == Head(st.w.iterator_rand)
             st1  == [st EXCEPT !.w.iterator_rand = Tail(@)]
             st2  == process_commit_parents(st1, next)
         IN  IF ~st2.cs[next].uninteresting THEN {Found(st2, next)}
             ELSE revwalk_next_unsorted(st2)

\* the loop over next->parents of revwalk_next_toposort, never putting a
\* delayed parent back on iterator_topo
RECURSIVE toposort_parents_norequeue(_, _, _)
toposort_parents_norequeue(st, ps, i) ==
    IF i > Len(ps) THEN st
    ELSE LET parent == ps[i]
             deg    == (st.cs[parent].in_degree - 1) % USHRT_RANGE
         IN  toposort_parents_norequeue([st EXCEPT !.cs[parent].in_degree = deg],
                                        ps, i + 1)

\* the loop over next->parents of revwalk_next_toposort
RECURSIVE toposort_parents(_, _, _)
toposort_parents(st, ps, i) ==
    IF i > Len(ps) THEN st
    ELSE LET parent == ps[i]
             deg    == (st.cs[parent].in_degree - 1) % USHRT_RANGE
             cs1    == [st.cs EXCEPT ![parent].in_degree = deg]
         IN  IF deg = 0 /\ cs1[parent].topo_delay
             THEN toposort_parents(
                      [cs |-> [cs1 EXCEPT ![parent].topo_delay = FALSE],
                       w  |-> [st.w EXCEPT !.iterator_topo = commit_list_insert(parent, @)]],
                      ps, i + 1)
             ELSE toposort_parents([st EXCEPT !.cs = cs1], ps, i + 1)

\* revwalk_next_toposort without the delay of a commit whose in_degree > 0
revwalk_next_toposort_nodelay(st) ==
    IF st.w.iterator_topo = <<>> THEN {Over(st)}
    ELSE LET next == Head(st.w.iterator_topo)
             st1  == [st EXCEPT !.w.iterator_topo = Tail(@)]
         IN  {Found(toposort_parents(st1, commit_parents(st1.cs, next), 1), next)}

RECURSIVE revwalk_next_toposort(_)
revwalk_next_toposort(st) ==
    IF st.w.iterator_topo = <<>> THEN {Over(st)}
    ELSE LET next == Head(st.w.iterator_topo)
             st1  == [st EXCEPT !.w.iterator_topo = Tail(@)]
         IN  IF st1.cs[next].in_degree > 0
             THEN revwalk_next_toposort([st1 EXCEPT !.cs[next].topo_delay = TRUE])
             ELSE {Found(toposort_parents(st1, commit_parents(st1.cs, next), 1), next)}

revwalk_next_reverse(st) ==
    IF st.w.iterator_reverse = <<>> THEN {Over(st)}
    ELSE {Found([st EXCEPT !.w.iterator_reverse = Tail(@)], Head(st.w.iterator_reverse))}

\* walk->get_next(&next, walk)
get_next(st) ==
    CASE st.w.get_next = "revwalk_next_timesort" -> revwalk_next_timesort(st)
      [] st.w.get_next = "revwalk_next_unsorted" -> revwalk_next_unsorted(st)
      [] st.w.get_next = "revwalk_next_toposort" -> revwalk_next_toposort(st)
      [] st.w.get_next = "revwalk_next_reverse"  -> revwalk_next_reverse(st)

RECURSIVE prepare_in_degree(_, _, _)
prepare_in_degree(cs, ps, i) ==
    IF i > Len(ps) THEN cs
    ELSE prepare_in_degree(
             [cs EXCEPT ![ps[i]].in_degree = (@ + 1) % USHRT_RANGE], ps, i + 1)

\* the GIT_SORT_TOPOLOGICAL loop of prepare_walk: the states it can end in
RECURSIVE prepare_topo(_)
prepare_topo(st) ==
    UNION {
        IF r.rc = "GIT_SUCCESS"
        THEN prepare_topo(
                 [cs |-> prepare_in_degree(r.st.cs, commit_parents(r.st.cs, r.out), 1),
                  w  |-> [r.st.w EXCEPT !.iterator_topo = commit_list_insert(r.out, @)]])
        ELSE {[r.st EXCEPT !.w.get_next = "revwalk_next_toposort"]}
        : r \in get_next(st)}

\* the GIT_SORT_REVERSE loop of prepare_walk appending to iterator_reverse
RECURSIVE prepare_reverse_append(_)
prepare_reverse_append(st) ==
    UNION {
        IF r.rc = "GIT_SUCCESS"
        THEN prepare_reverse_append(
                 [r.st EXCEPT !.w.iterator_reverse = Append(@, r.out)])
        ELSE {[r.st EXCEPT !.w.get_next = "revwalk_next_reverse"]}
        : r \in get_next(st)}

\* the GIT_SORT_REVERSE loop of prepare_walk
RECURSIVE prepare_reverse(_)
prepare_reverse(st) ==
    UNION {
        IF r.rc = "GIT_SUCCESS"
        THEN prepare_reverse(
                 [r.st EXCEPT !.w.iterator_reverse = commit_list_insert(r.out, @)])
        ELSE {[r.st EXCEPT !.w.get_next = "revwalk_next_reverse"]}
        : r \in get_next(st)}

RECURSIVE prepare_twos(_, _)
prepare_twos(st, i) ==
    IF i > Len(st.w.twos) THEN st
    ELSE LET two == st.w.twos[i]
         IN  prepare_twos(process_commit(st, two, st.cs[two].uninteresting), i + 1)

\* prepare_walk with walk->one set: the states it can leave the walker in
prepare_walk(st) ==
    LET bases == merge_bases_many(st.cs, st.w.one, st.w.twos)
        st1   == process_commit([st EXCEPT !.cs = bases.cs], st.w.one,
                                bases.cs[st.w.one].uninteresting)
        st2   == prepare_twos(st1, 1)
        topo  == IF st2.w.sorting \cap GIT_SORT_TOPOLOGICAL # {}
                 THEN prepare_topo(st2) ELSE {st2}
        rev   == IF st2.w.sorting \cap GIT_SORT_REVERSE # {}
                 THEN UNION {prepare_reverse(t) : t \in topo} ELSE topo
    IN  {[t EXCEPT !.w.walking = TRUE] : t \in rev}

git_revwalk_reset(st) ==
    [cs |-> [c \in DOMAIN st.cs |->
                [st.cs[c] EXCEPT !.seen = FALSE, !.in_degree = 0,
                                 !.topo_delay = FALSE, !.uninteresting = FALSE]],
     w  |-> [st.w EXCEPT !.iterator_time = {}, !.iterator_topo = <<>>,
                         !.iterator_rand = <<>>, !.iterator_reverse = <<>>,
                         !.walking = FALSE]]

git_revwalk_sorting(st, sort_mode) ==
    LET st1 == IF st.w.walking THEN git_revwalk_reset(st) ELSE st
    IN  IF sort_mode \cap GIT_SORT_TIME # {}
        THEN [st1 EXCEPT !.w.sorting = sort_mode,
                         !.w.get_next = "revwalk_next_timesort",
                         !.w.enqueue = "revwalk_enqueue_timesort"]
        ELSE [st1 EXCEPT !.w.sorting = sort_mode,
                         !.w.get_next = "revwalk_next_unsorted",
                         !.w.enqueue = "revwalk_enqueue_unsorted"]

\* git_revwalk_next with walk->one set (or the walk prepared): its outcomes
git_revwalk_next(st) ==
    LET prepared == IF ~st.w.walking THEN prepare_walk(st) ELSE {st}
    IN  UNION {
            {IF r.rc = "GIT_EREVWALKOVER"
             THEN [r EXCEPT !.st = git_revwalk_reset(r.st)]
             ELSE r
             : r \in get_next(p)}
            : p \in prepared}


(* ------------------------- src/src/cache.c ----------------------------- *)
Threads == 1..NumThreads
Entries == 1..NumEntries
Oids    == 1..NumOids
NoEntry  == 0
NoThread == 0

GIT_CACHE_STORE_ANY    == "GIT_CACHE_STORE_ANY"
GIT_CACHE_STORE_RAW    == "GIT_CACHE_STORE_RAW"
GIT_CACHE_STORE_PARSED == "GIT_CACHE_STORE_PARSED"

git_cache__max_object_size ==
    [GIT_OBJ_COMMIT |-> 4096, GIT_OBJ_TREE |-> 4096, GIT_OBJ_BLOB |-> 0,
     GIT_OBJ_TAG |-> 4096]

\* the (type, size) pairs the stored objects are drawn from
ObjectShapes ==
    {[type |-> "GIT_OBJ_COMMIT", size |-> 4096],
     [type |-> "GIT_OBJ_COMMIT", size |-> 4097]}

\* an object as its constructor hands it to git_cache_store_raw / _parsed:
\* zeroed, so with refcount 0
new_cached_obj(oid, shape) ==
    [oid |-> oid, type |-> shape.type, size |-> shape.size,
     flags |-> GIT_CACHE_STORE_ANY, refcount |-> 0, freed |-> FALSE]

\* the entry was never allocated
NoObject == [oid |-> NoEntry, type |-> "none", size |-> 0,
             flags |-> GIT_CACHE_STORE_ANY, refcount |-> 0, freed |-> FALSE]

git_cache_init ==
    [map |-> [o \in Oids |-> NoEntry], used_memory |-> 0, lock |-> NoThread]

kh_size(map) == Cardinality({o \in Oids : map[o] # NoEntry})

git_cached_obj_incref(objs, e) == [objs EXCEPT ![e].refcount = @ + 1]

\* git_atomic_dec, and the free of the object when the count reaches 0
git_cached_obj_decref(objs, e) ==
    [objs EXCEPT ![e].refcount = @ - 1,
                 ![e].freed = @ \/ (objs[e].refcount - 1 = 0)]

cache_should_store(object_type, object_size) ==
    LET max_size == git_cache__max_object_size[object_type]
    IN  ~(max_size = 0 \/ object_size > max_size)

\* evict_loop without kh_del
RECURSIVE evict_loop_nodel(_, _)
evict_loop_nodel(s, victims) ==
    IF victims = {} THEN s
    ELSE LET pos   == CHOOSE o \in victims : TRUE
             evict == s.cache.map[pos]
         IN  evict_loop_nodel(
                 [objects |-> git_cached_obj_decref(s.objects, evict),
                  cache   |-> [s.cache EXCEPT
                                  !.used_memory = @ - s.objects[evict].size]],
                 victims \ {pos})

\* evict_loop without git_cached_obj_decref
RECURSIVE evict_loop_nodecref(_, _)
evict_loop_nodecref(s, victims) ==
    IF victims = {} THEN s
    ELSE LET pos   == CHOOSE o \in victims : TRUE
             evict == s.cache.map[pos]
         IN  evict_loop_nodecref(
                 [objects |-> s.objects,
                  cache   |-> [s.cache EXCEPT
                                  !.used_memory = @ - s.objects[evict].size,
                                  !.map[pos] = NoEntry]],
                 victims \ {pos})

\* the while loop of cache_evict_entries, its scan meeting the entries of the
\* oids in victims; s = [objects, cache]
RECURSIVE evict_loop(_, _)
evict_loop(s, victims) ==
    IF victims = {} THEN s
    ELSE LET pos   == CHOOSE o \in victims : TRUE
             evict == s.cache.map[pos]
         IN  evict_loop(
                 [objects |-> git_cached_obj_decref(s.objects, evict),
                  cache   |-> [s.cache EXCEPT
                                  !.used_memory = @ - s.objects[evict].size,
                                  !.map[pos] = NoEntry]],
                 victims \ {pos})

\* cache_evict_entries (called with the lock)
cache_evict_entries(s, evict_count, victims) ==
    IF evict_count > kh_size(s.cache.map) THEN s
    ELSE evict_loop(s, victims)

\* the sets of oids a scan for evict_count entries can end up evicting
EvictChoices(map, evict_count) ==
    {v \in SUBSET {o \in Oids : map[o] # NoEntry} : Cardinality(v) = evict_count}

\* cache_get between git_mutex_lock and git_mutex_unlock: [objects, ret]
cache_get(s, oid, flags) ==
    LET entry == s.cache.map[oid]
    IN  IF entry = NoEntry THEN [objects |-> s.objects, ret |-> NoEntry]
        ELSE IF flags # GIT_CACHE_STORE_ANY /\ s.objects[entry].flags # flags
             THEN [objects |-> s.objects, ret |-> NoEntry]
             ELSE [objects |-> git_cached_obj_incref(s.objects, entry),
                   ret |-> entry]

\* cache_store keeping the temporary reference on the entry passed in when a
\* cached entry of the same kind is returned
cache_store_nodecref(s, entry) ==
    LET oid          == s.objects[entry].oid
        stored_entry == s.cache.map[oid]
    IN  IF stored_entry = NoEntry
        THEN [objects |-> git_cached_obj_incref(s.objects, entry),
              cache   |-> [s.cache EXCEPT
                              !.map[oid] = entry,
                              !.used_memory = @ + s.objects[entry].size],
              ret     |-> entry]
        ELSE IF s.objects[stored_entry].flags = s.objects[entry].flags
        THEN [objects |-> git_cached_obj_incref(s.objects, stored_entry),
              cache   |-> s.cache,
              ret     |-> stored_entry]
        ELSE IF /\ s.objects[stored_entry].flags = GIT_CACHE_STORE_RAW
                /\ s.objects[entry].flags = GIT_CACHE_STORE_PARSED
        THEN [objects |-> git_cached_obj_incref(
                              git_cached_obj_decref(s.objects, stored_entry), entry),
              cache   |-> [s.cache EXCEPT !.map[oid] = entry],
              ret     |-> entry]
        ELSE [objects |-> s.objects, cache |-> s.cache, ret |-> entry]

\* cache_store replacing the cached entry whenever the kinds differ
cache_store_replace(s, entry) ==
    LET oid          == s.objects[entry].oid
        stored_entry == s.cache.map[oid]
    IN  IF stored_entry = NoEntry
        THEN [objects |-> git_cached_obj_incref(s.objects, entry),
              cache   |-> [s.cache EXCEPT
                              !.map[oid] = entry,
                              !.used_memory = @ + s.objects[entry].size],
              ret     |-> entry]
        ELSE IF s.objects[stored_entry].flags = s.objects[entry].flags
        THEN [objects |-> git_cached_obj_incref(
                              git_cached_obj_decref(s.objects, entry), stored_entry),
              cache   |-> s.cache,
              ret     |-> stored_entry]
        ELSE [objects |-> git_cached_obj_incref(
                              git_cached_obj_decref(s.objects, stored_entry), entry),
              cache   |-> [s.cache EXCEPT !.map[oid] = entry],
              ret     |-> entry]

\* cache_store handing back the entry passed in when a cached entry of the
\* same kind is met
cache_store_keepown(s, entry) ==
    LET oid          == s.objects[entry].oid
        stored_entry == s.cache.map[oid]
    IN  IF stored_entry = NoEntry
        THEN [objects |-> git_cached_obj_incref(s.objects, entry),
              cache   |-> [s.cache EXCEPT
                              !.map[oid] = entry,
                              !.used_memory = @ + s.objects[entry].size],
              ret     |-> entry]
        ELSE IF /\ s.objects[stored_entry].flags = GIT_CACHE_STORE_RAW
                /\ s.objects[entry].flags = GIT_CACHE_STORE_PARSED
        THEN [objects |-> git_cached_obj_incref(
                              git_cached_obj_decref(s.objects, stored_entry), entry),
              cache   |-> [s.cache EXCEPT !.map[oid] = entry],
              ret     |-> entry]
        ELSE [objects |-> s.objects, cache |-> s.cache, ret |-> entry]

\* cache_store between git_mutex_lock and git_mutex_unlock:
\* [objects, cache, ret]
cache_store(s, entry) ==
    LET oid          == s.objects[entry].oid
        stored_entry == s.cache.map[oid]
    IN  IF stored_entry = NoEntry
        THEN [objects |-> git_cached_obj_incref(s.objects, entry),
              cache   |-> [s.cache EXCEPT
                              !.map[oid] = entry,
                              !.used_memory = @ + s.objects[entry].size],
              ret     |-> entry]
        ELSE IF s.objects[stored_entry].flags = s.objects[entry].flags
        THEN [objects |-> git_cached_obj_incref(
                              git_cached_obj_decref(s.objects, entry), stored_entry),
              cache   |-> s.cache,
              ret     |-> stored_entry]
        ELSE IF /\ s.objects[stored_entry].flags = GIT_CACHE_STORE_RAW
                /\ s.objects[entry].flags = GIT_CACHE_STORE_PARSED
        THEN [objects |-> git_cached_obj_incref(
                              git_cached_obj_decref(s.objects, stored_entry), entry),
              cache   |-> [s.cache EXCEPT !.map[oid] = entry],
              ret     |-> entry]
        ELSE [objects |-> s.objects, cache |-> s.cache, ret |-> entry]

(* ----------------------- iterations of the walker ---------------------- *)
\* start before any iteration
NoStart == [cs |-> <<>>, w |-> git_revwalk_new]

RunIdle ==
    /\ start = NoStart
    /\ runs = <<>>

(* ------------------------ src/src/odb_pack.c --------------------------- *)
\* An OID is the sequence of its hex digits; a byte of it is two digits.
HexDigit == 0..(NumHexDigits - 1)
AllOids == [1..OidLen -> HexDigit]

\* the bytes of an OID read as one number, the first byte the most significant
RECURSIVE oid_value(_, _)
oid_value(o, n) == IF n = 0 THEN 0 ELSE oid_value(o, n - 1) * NumHexDigits + o[n]

\* git_oid_cmp(a, b) < 0
git_oid_less(a, b) == oid_value(a, OidLen) < oid_value(b, OidLen)

\* git_oid_ncmp(a, b, len): 0 when the first len hex digits agree
git_oid_ncmp(a, b, len) == IF \A i \in 1..len : a[i] = b[i] THEN 0 ELSE 1

\* short_oid->id[0]
first_byte(o) == o[1] * NumHexDigits + o[2]

\* the short OIDs of len hex digits: the digits after them are 0
ShortOids(len) == {o \in AllOids : \A i \in (len + 1)..OidLen : o[i] = 0}

\* the sha1 table of an index file holding the OIDs of S: sorted
RECURSIVE sorted_oids(_)
sorted_oids(S) ==
    IF S = {} THEN <<>>
    ELSE LET least == CHOOSE o \in S : \A x \in S \ {o} : git_oid_less(o, x)
         IN  <<least>> \o sorted_oids(S \ {least})

\* the offsets table of the pack of n objects: the object the index lists
\* first is stored last
pack_offsets(n) == [i \in 1..n |-> n + 1 - i]

\* the mapped index file of a pack holding the OIDs of S
index_file(S) == [sha1 |-> sorted_oids(S), offsets |-> pack_offsets(Cardinality(S))]

\* p->index_map.data == NULL
NoIndex == [sha1 |-> <<>>, offsets |-> <<>>]

\* level1_ofs[b] of a well-formed index: the entries whose first byte is <= b
level1_ofs(index, b) ==
    Cardinality({i \in 1..Len(index.sha1) : first_byte(index.sha1[i]) <= b})

\* sha1_entry_pos(index, stride, 0, lo, hi, nr, key): the position of key in
\* the table, or -1 - (the position key is to be inserted at), within lo..hi
sha1_entry_pos(index, lo, hi, key) ==
    LET hits == {i \in lo..(hi - 1) : index.sha1[i + 1] = key}
    IN  IF hits # {} THEN CHOOSE i \in hits : TRUE
        ELSE -1 - (lo + Cardinality({i \in lo..(hi - 1) :
                                        git_oid_less(index.sha1[i + 1], key)}))

nth_packed_object_offset(index, n) == index.offsets[n + 1]

\* the names of the packs: pack-<name>.idx and pack-<name>.pack
PackNames == {<<"a">>, <<"a", "b">>}
DotIdx  == <<".", "i", "d", "x">>
DotPack == <<".", "p", "a", "c", "k">>

\* the name a pack_file was loaded under
pack_base(p) == SubSeq(p.pack_name, 1, Len(p.pack_name) - Len(DotPack))

\* no such file in the pack directory
NoFile == [index |-> NoIndex, present |-> FALSE, pack |-> "missing", mtime |-> 0]

\* pack_index_open(p): maps the index file when it is not mapped yet
pack_index_open(p) ==
    IF p.index_map # NoIndex THEN [rc |-> "GIT_SUCCESS", p |-> p]
    ELSE IF dir.files[pack_base(p)].present
    THEN [rc |-> "GIT_SUCCESS",
          p  |-> [p EXCEPT !.index_map = dir.files[pack_base(p)].index]]
    ELSE [rc |-> "GIT_ENOTFOUND", p |-> p]

\* pack_entry_find_offset testing the entry before the hit for ambiguity
pack_entry_find_offset_before(p0, short_oid, len) ==
    LET opened == pack_index_open(p0)
        p      == opened.p
        index  == p.index_map
        num_objects == Len(index.sha1)
        hi    == level1_ofs(index, first_byte(short_oid))
        lo    == IF first_byte(short_oid) = 0 THEN 0
                 ELSE level1_ofs(index, first_byte(short_oid) - 1)
        pos0  == sha1_entry_pos(index, lo, hi, short_oid)
        pos   == IF pos0 >= 0 THEN pos0 ELSE -1 - pos0
        found == IF pos0 >= 0 THEN 1
                 ELSE IF pos < num_objects
                         /\ git_oid_ncmp(short_oid, index.sha1[pos + 1], len) = 0
                      THEN 1 ELSE 0
        ambig == /\ found = 1 /\ pos >= 1
                 /\ git_oid_ncmp(short_oid, index.sha1[pos], len) = 0
    IN  IF opened.rc # "GIT_SUCCESS"
        THEN [rc |-> opened.rc, offset |-> 0, oid |-> <<>>, p |-> p]
        ELSE IF found = 0
        THEN [rc |-> "GIT_ENOTFOUND", offset |-> 0, oid |-> <<>>, p |-> p]
        ELSE IF ambig
        THEN [rc |-> "GIT_EAMBIGUOUSOIDPREFIX", offset |-> 0, oid |-> <<>>, p |-> p]
        ELSE [rc |-> "GIT_SUCCESS", offset |-> nth_packed_object_offset(index, pos),
              oid |-> index.sha1[pos + 1], p |-> p]

\* pack_entry_find_offset: return code, *offset_out, *found_oid and the pack
pack_entry_find_offset(p0, short_oid, len) ==
    LET opened == pack_index_open(p0)
        p      == opened.p
        index  == p.index_map
        num_objects == Len(index.sha1)
        hi    == level1_ofs(index, first_byte(short_oid))
        lo    == IF first_byte(short_oid) = 0 THEN 0
                 ELSE level1_ofs(index, first_byte(short_oid) - 1)
        pos0  == sha1_entry_pos(index, lo, hi, short_oid)
        pos   == IF pos0 >= 0 THEN pos0 ELSE -1 - pos0
        found == IF pos0 >= 0 THEN 1
                 ELSE IF pos < num_objects
                         /\ git_oid_ncmp(short_oid, index.sha1[pos + 1], len) = 0
                      THEN 1 ELSE 0
        ambig == /\ found = 1 /\ pos + 1 < num_objects
                 /\ git_oid_ncmp(short_oid, index.sha1[pos + 2], len) = 0
    IN  IF opened.rc # "GIT_SUCCESS"
        THEN [rc |-> opened.rc, offset |-> 0, oid |-> <<>>, p |-> p]
        ELSE IF found = 0
        THEN [rc |-> "GIT_ENOTFOUND", offset |-> 0, oid |-> <<>>, p |-> p]
        ELSE IF ambig
        THEN [rc |-> "GIT_EAMBIGUOUSOIDPREFIX", offset |-> 0, oid |-> <<>>, p |-> p]
        ELSE [rc |-> "GIT_SUCCESS", offset |-> nth_packed_object_offset(index, pos),
              oid |-> index.sha1[pos + 1], p |-> p]

\* what packfile_open can find wrong with a packfile
PackDefects == {"signature", "version", "entries", "trailer"}

\* packfile_check(&pack, path) for the index file of name: fails when there
\* is no packfile beside it, and else leaves a pack_file with its index not
\* mapped and its packfile not open (fd is mwf.fd != -1; verified records
\* that packfile_open found the packfile sound)
packfile_check(name) ==
    IF dir.files[name].pack = "missing"
    THEN [rc |-> "GIT_ENOTFOUND", p |-> <<>>]
    ELSE [rc |-> "GIT_SUCCESS",
          p  |-> [pack_name |-> name \o DotPack, index_map |-> NoIndex, fd |-> FALSE,
                  verified |-> FALSE, mtime |-> dir.files[name].mtime]]

\* backend->last_found == NULL
NoPack == <<>>

\* packfile_open(p): maps the index, opens the packfile, registers it with
\* the window manager and verifies its signature, version, object count and
\* trailer hash
packfile_open(p0) ==
    LET opened == pack_index_open(p0)
        file   == dir.files[pack_base(p0)].pack
    IN  IF opened.rc # "GIT_SUCCESS" THEN [rc |-> "GIT_ENOTFOUND", p |-> p0]
        ELSE IF file = "missing"
        THEN [rc |-> "GIT_EOSERR", p |-> [opened.p EXCEPT !.fd = FALSE]]
        ELSE IF enomem
        THEN [rc |-> "GIT_ERROR", p |-> [opened.p EXCEPT !.fd = TRUE]]
        ELSE IF file \in PackDefects
        THEN [rc |-> "GIT_EPACKCORRUPTED", p |-> [opened.p EXCEPT !.fd = FALSE]]
        ELSE [rc |-> "GIT_SUCCESS",
              p  |-> [opened.p EXCEPT !.fd = TRUE, !.verified = TRUE]]

\* packfile_sort__cb(a, b) for local packs: the younger pack first
packfile_sort__cb(a, b) ==
    IF a.mtime < b.mtime THEN 1 ELSE IF a.mtime = b.mtime THEN 0 ELSE -1

\* memcmp(p->pack_name, path, strlen(path) - STRLEN(".idx")) == 0
same_pack_name(p, path) ==
    LET n == Len(path) - Len(DotIdx)
    IN  n <= Len(p.pack_name) /\ SubSeq(p.pack_name, 1, n) = SubSeq(path, 1, n)

\* packfile_load__cb(backend, path) on the index file of a pack: the return
\* code and the list of packs afterwards
packfile_load__cb(packs, path) ==
    IF \E i \in 1..Len(packs) : same_pack_name(packs[i], path)
    THEN [rc |-> "GIT_SUCCESS", packs |-> packs]
    ELSE CHOOSE ret \in
        {IF c.rc # "GIT_SUCCESS" THEN [rc |-> c.rc, packs |-> packs]
         ELSE [rc |-> "GIT_SUCCESS", packs |-> Append(packs, c.p)]
         : c \in {packfile_check(SubSeq(path, 1, Len(path) - Len(DotIdx)))}} : TRUE

\* git_futils_direach(path, packfile_load__cb, backend): the index files are
\* met in some order, up to the first the callback fails on; the return
\* codes and lists of packs that can result
RECURSIVE git_futils_direach(_, _)
git_futils_direach(packs, names) ==
    IF names = {} THEN {[rc |-> "GIT_SUCCESS", packs |-> packs]}
    ELSE UNION {UNION {IF l.rc # "GIT_SUCCESS" THEN {l}
                       ELSE git_futils_direach(l.packs, names \ {n})
                       : l \in {packfile_load__cb(packs, n \o DotIdx)}}
                : n \in names}

\* git_vector_sort(&backend->packs): some order packfile_sort__cb agrees with
git_vector_sort(packs) ==
    LET n == Len(packs)
        perms == {f \in [1..n -> 1..n] : \A i, j \in 1..n : i # j => f[i] # f[j]}
    IN  {[i \in 1..n |-> packs[f[i]]] : f \in
            {g \in perms : \A i, j \in 1..n :
                i < j => packfile_sort__cb(packs[g[i]], packs[g[j]]) <= 0}}

\* packfile_refresh_all(backend): the return codes it can give and the
\* backends it can leave
packfile_refresh_all(b) ==
    IF dir.mtime # b.pack_folder_mtime
    THEN UNION {IF l.rc # "GIT_SUCCESS"
                THEN {[rc |-> l.rc, b |-> [b EXCEPT !.packs = l.packs]]}
                ELSE {[rc |-> "GIT_SUCCESS",
                       b  |-> [b EXCEPT !.packs = sorted,
                                        !.pack_folder_mtime = dir.mtime]]
                      : sorted \in git_vector_sort(l.packs)}
                : l \in git_futils_direach(b.packs,
                                           {n \in PackNames : dir.files[n].present})}
    ELSE {[rc |-> "GIT_SUCCESS", b |-> b]}

\* what a lookup leaves in *e when it fails
NoEntryFound == [offset |-> 0, p |-> NoPack, sha1 |-> <<>>]

\* pack_entry_find1(e, p, short_oid, len): return code, *e and the pack
\* (r is what pack_entry_find_offset returned, o what opening the packfile did)
pack_entry_find1(p0, short_oid, len) ==
    CHOOSE ret \in
        {IF r.rc # "GIT_SUCCESS" THEN [rc |-> r.rc, e |-> NoEntryFound, p |-> r.p]
         ELSE CHOOSE ret1 \in
                {IF o.rc # "GIT_SUCCESS"
                 THEN [rc |-> "GIT_EOSERR", e |-> NoEntryFound, p |-> o.p]
                 ELSE [rc |-> "GIT_SUCCESS",
                       e  |-> [offset |-> r.offset, p |-> o.p.pack_name, sha1 |-> r.oid],
                       p  |-> o.p]
                 : o \in {IF r.p.fd THEN [rc |-> "GIT_SUCCESS", p |-> r.p]
                          ELSE packfile_open(r.p)}} : TRUE
         : r \in {pack_entry_find_offset(p0, short_oid, len)}} : TRUE

\* the position in backend->packs of the pack last_found points to, or 0
last_found_pos(b) ==
    IF b.last_found = NoPack THEN 0
    ELSE CHOOSE i \in 1..Len(b.packs) : b.packs[i].pack_name = b.last_found

\* one turn of the loop of pack_entry_find, on backend->packs[i]
\* (r is what pack_entry_find1 returned)
pack_entry_find_turn(b, i, oid) ==
    IF b.packs[i].pack_name = b.last_found
    THEN [rc |-> "GIT_ENOTFOUND", e |-> NoEntryFound, b |-> b]
    ELSE CHOOSE ret \in
        {IF r.rc = "GIT_SUCCESS"
         THEN [rc |-> "GIT_SUCCESS", e |-> r.e,
               b |-> [b EXCEPT !.packs[i] = r.p, !.last_found = r.p.pack_name,
                               !.examined = Append(@, r.p.pack_name)]]
         ELSE [rc |-> "GIT_ENOTFOUND", e |-> NoEntryFound,
               b |-> [b EXCEPT !.packs[i] = r.p,
                               !.examined = Append(@, r.p.pack_name)]]
         : r \in {pack_entry_find1(b.packs[i], oid, OidLen)}} : TRUE

\* the loop of pack_entry_find over backend->packs, from position i
RECURSIVE pack_entry_find_loop(_, _, _)
pack_entry_find_loop(b, i, oid) ==
    IF i > Len(b.packs)
    THEN [rc |-> "GIT_ENOTFOUND", e |-> NoEntryFound, b |-> b]
    ELSE CHOOSE ret \in
        {IF t.rc = "GIT_SUCCESS" THEN t ELSE pack_entry_find_loop(t.b, i + 1, oid)
         : t \in {pack_entry_find_turn(b, i, oid)}} : TRUE

\* pack_entry_find going through the packs without consulting last_found
pack_entry_find_nolast(b, oid) == pack_entry_find_loop(b, 1, oid)

\* pack_entry_find(e, backend, oid) after packfile_refresh_all
\* (r is what pack_entry_find1 returned for last_found)
pack_entry_find(b, oid) ==
    IF b.last_found = NoPack THEN pack_entry_find_loop(b, 1, oid)
    ELSE CHOOSE ret \in
        {IF r.rc = "GIT_SUCCESS"
         THEN [rc |-> "GIT_SUCCESS", e |-> r.e,
               b |-> [b EXCEPT !.packs[last_found_pos(b)] = r.p,
                               !.examined = Append(@, r.p.pack_name)]]
         ELSE pack_entry_find_loop([b EXCEPT !.packs[last_found_pos(b)] = r.p,
                                             !.examined = Append(@, r.p.pack_name)],
                                   1, oid)
         : r \in {pack_entry_find1(b.packs[last_found_pos(b)], oid, OidLen)}} : TRUE

\* one turn of the loop of pack_entry_find_prefix, on backend->packs[i];
\* st = [rc, b, e, found, out], out when the loop is left
\* (r is what pack_entry_find1 returned)
pack_entry_find_prefix_turn(st, i, short_oid, len) ==
    IF st.b.packs[i].pack_name = st.b.last_found THEN st
    ELSE CHOOSE ret \in
        {IF r.rc = "GIT_EAMBIGUOUSOIDPREFIX"
         THEN [st EXCEPT !.rc = r.rc, !.b.packs[i] = r.p,
                         !.b.examined = Append(@, r.p.pack_name), !.out = TRUE]
         ELSE IF r.rc = "GIT_SUCCESS"
         THEN [rc    |-> st.rc,
               b     |-> IF st.found + 1 > 1
                         THEN [st.b EXCEPT !.packs[i] = r.p,
                                           !.examined = Append(@, r.p.pack_name)]
                         ELSE [st.b EXCEPT !.packs[i] = r.p,
                                           !.examined = Append(@, r.p.pack_name),
                                           !.last_found = r.p.pack_name],
               e     |-> r.e,
               found |-> st.found + 1,
               out   |-> st.found + 1 > 1]
         ELSE [st EXCEPT !.b.packs[i] = r.p, !.b.examined = Append(@, r.p.pack_name)]
         : r \in {pack_entry_find1(st.b.packs[i], short_oid, len)}} : TRUE

\* the loop of pack_entry_find_prefix over backend->packs, from position i
RECURSIVE pack_entry_find_prefix_loop(_, _, _, _)
pack_entry_find_prefix_loop(st, i, short_oid, len) ==
    IF i > Len(st.b.packs) \/ st.out THEN st
    ELSE pack_entry_find_prefix_loop(
             pack_entry_find_prefix_turn(st, i, short_oid, len), i + 1, short_oid, len)

\* the lookup in last_found that pack_entry_find_prefix starts with
pack_entry_find_prefix_last(b, short_oid, len) ==
    IF b.last_found = NoPack
    THEN [rc |-> "GIT_SUCCESS", b |-> b, e |-> NoEntryFound, found |-> 0, out |-> FALSE]
    ELSE CHOOSE ret \in
        {[rc    |-> IF r.rc = "GIT_EAMBIGUOUSOIDPREFIX" THEN r.rc ELSE "GIT_SUCCESS",
          b     |-> [b EXCEPT !.packs[last_found_pos(b)] = r.p,
                              !.examined = Append(@, r.p.pack_name)],
          e     |-> r.e,
          found |-> IF r.rc = "GIT_SUCCESS" THEN 1 ELSE 0,
          out   |-> r.rc = "GIT_EAMBIGUOUSOIDPREFIX"]
         : r \in {pack_entry_find1(b.packs[last_found_pos(b)], short_oid, len)}} : TRUE

\* pack_entry_find_prefix(e, backend, short_oid, len) after packfile_refresh_all
\* (st is the state the loop over the packs ends in)
pack_entry_find_prefix(b, short_oid, len) ==
    CHOOSE ret \in
        {IF st.rc = "GIT_EAMBIGUOUSOIDPREFIX"
         THEN [rc |-> "GIT_EAMBIGUOUSOIDPREFIX", e |-> st.e, b |-> st.b]
         ELSE IF st.found = 0 THEN [rc |-> "GIT_ENOTFOUND", e |-> st.e, b |-> st.b]
         ELSE IF st.found > 1
         THEN [rc |-> "GIT_EAMBIGUOUSOIDPREFIX", e |-> st.e, b |-> st.b]
         ELSE [rc |-> "GIT_SUCCESS", e |-> st.e, b |-> st.b]
         : st \in {pack_entry_find_prefix_loop(
                       pack_entry_find_prefix_last(b, short_oid, len),
                       1, short_oid, len)}} : TRUE

\* no query made since the pack directory last changed
NoQuery == [op |-> "none", short_oid |-> <<>>, len |-> 0, rc |-> "none",
            offset |-> 0, oid |-> <<>>, pack |-> NoPack, observed |-> FALSE]

\* the backend as git_odb_backend_pack leaves it, on an empty pack directory
PackIdle ==
    /\ enomem = FALSE
    /\ dir = [files |-> [n \in PackNames |-> NoFile], mtime |-> 1]
    /\ backend = [packs |-> <<>>, last_found |-> NoPack, pack_folder_mtime |-> 0,
                  examined |-> <<>>]
    /\ query = NoQuery

(* --------------------------- src/src/diff.c ---------------------------- *)
\* the characters of paths and patterns, with their codes
char_code ==
    [c \in {"!", "#", "*", ".", "/", "a", "b"} |->
        CASE c = "!" -> 33 [] c = "#" -> 35 [] c = "*" -> 42 [] c = "." -> 46
          [] c = "/" -> 47 [] c = "a" -> 97 [] c = "b" -> 98]

\* strcmp(s, t) < 0, = 0, > 0 as -1, 0, 1
RECURSIVE strcmp(_, _)
strcmp(s, t) ==
    IF s = <<>> /\ t = <<>> THEN 0
    ELSE IF s = <<>> THEN -1
    ELSE IF t = <<>> THEN 1
    ELSE IF char_code[Head(s)] < char_code[Head(t)] THEN -1
    ELSE IF char_code[Head(s)] > char_code[Head(t)] THEN 1
    ELSE strcmp(Tail(s), Tail(t))

\* git__fnmatch(pattern, string, 0) = 0: a star stands for any characters,
\* slashes included, every other character for itself
RECURSIVE git__fnmatch(_, _)
git__fnmatch(pattern, string) ==
    IF pattern = <<>> THEN string = <<>>
    ELSE IF Head(pattern) = "*"
    THEN \E k \in 0..Len(string) :
            git__fnmatch(Tail(pattern), SubSeq(string, k + 1, Len(string)))
    ELSE /\ string # <<>>
         /\ Head(string) = Head(pattern)
         /\ git__fnmatch(Tail(pattern), Tail(string))

GIT_ATTR_FNMATCH_NEGATIVE == "GIT_ATTR_FNMATCH_NEGATIVE"
GIT_ATTR_FNMATCH_HASWILD  == "GIT_ATTR_FNMATCH_HASWILD"

\* git_attr_fnmatch__parse: [rc, match]; an empty pattern and a comment are
\* not found, a leading "!" makes the match negative
git_attr_fnmatch__parse(pattern) ==
    IF pattern = <<>> \/ Head(pattern) = "#"
    THEN [rc |-> "GIT_ENOTFOUND", match |-> <<>>]
    ELSE CHOOSE ret \in
        {[rc    |-> "GIT_SUCCESS",
          match |-> [pattern |-> pat,
                     length  |-> Len(pat),
                     flags   |-> (IF Head(pattern) = "!"
                                  THEN {GIT_ATTR_FNMATCH_NEGATIVE} ELSE {})
                                 \cup (IF "*" \in Range(pat)
                                       THEN {GIT_ATTR_FNMATCH_HASWILD} ELSE {})]]
         : pat \in {IF Head(pattern) = "!" THEN Tail(pattern) ELSE pattern}} : TRUE

\* diff_pathspec_is_interesting
diff_pathspec_is_interesting(pathspec) ==
    IF Len(pathspec) = 0 THEN FALSE
    ELSE IF Len(pathspec) > 1 THEN TRUE
    ELSE ~(\/ pathspec[1] = <<>>
           \/ Len(pathspec[1]) = 1 /\ pathspec[1][1] \in {"*", "."})

\* strncmp(path, match->pattern, match->length) == 0 &&
\* path[match->length] == '/'
dirname_prefix_match(match, path) ==
    /\ Len(path) > match.length
    /\ SubSeq(path, 1, match.length) = match.pattern
    /\ path[match.length + 1] = "/"

\* the loop of diff_path_matches_pathspec from match i on
RECURSIVE diff_path_matches_from(_, _, _)
diff_path_matches_from(pathspec, i, path) ==
    IF i > Len(pathspec) THEN FALSE
    ELSE IF \/ git__fnmatch(pathspec[i].pattern, path)
            \/ /\ GIT_ATTR_FNMATCH_HASWILD \notin pathspec[i].flags
               /\ dirname_prefix_match(pathspec[i], path)
    THEN GIT_ATTR_FNMATCH_NEGATIVE \notin pathspec[i].flags
    ELSE diff_path_matches_from(pathspec, i + 1, path)

\* diff_path_matches_pathspec
diff_path_matches_pathspec(d, path) ==
    IF Len(d.pathspec) = 0 THEN TRUE
    ELSE diff_path_matches_from(d.pathspec, 1, path)

\* a & b on non-negative integers
RECURSIVE BitAnd(_, _)
BitAnd(a, b) ==
    IF a = 0 \/ b = 0 THEN 0
    ELSE (a % 2) * (b % 2) + 2 * BitAnd(a \div 2, b \div 2)

\* a & ~b
BitClear(a, b) == a - BitAnd(a, b)

\* the file modes 0100644, 0100755, 0120000, 0160000 and 0040000
git_filemode ==
    [BLOB |-> 33188, BLOB_EXECUTABLE |-> 33261, LINK |-> 40960,
     COMMIT |-> 57344, TREE |-> 16384]

\* the masks 0170000 (S_IFMT) and 0777 (GIT_MODE_PERMS_MASK)
mode_mask == [S_IFMT |-> 61440, PERMS |-> 511]

\* 0000111
EXEC_BIT_MASK == 73

S_ISLNK(m)     == BitAnd(m, mode_mask.S_IFMT) = git_filemode.LINK
S_ISREG(m)     == BitAnd(m, mode_mask.S_IFMT) = BitClear(git_filemode.BLOB, mode_mask.PERMS)
S_ISDIR(m)     == BitAnd(m, mode_mask.S_IFMT) = git_filemode.TREE
S_ISGITLINK(m) == BitAnd(m, mode_mask.S_IFMT) = git_filemode.COMMIT
GIT_MODE_TYPE(m) == BitClear(m, mode_mask.PERMS)

git_oid_iszero(oid) == oid = 0

GIT_DIFF_REVERSE            == "GIT_DIFF_REVERSE"
GIT_DIFF_INCLUDE_UNMODIFIED == "GIT_DIFF_INCLUDE_UNMODIFIED"
GIT_DIFF_INCLUDE_IGNORED    == "GIT_DIFF_INCLUDE_IGNORED"
GIT_DIFF_INCLUDE_UNTRACKED  == "GIT_DIFF_INCLUDE_UNTRACKED"
GIT_DIFF_IGNORE_SUBMODULES  == "GIT_DIFF_IGNORE_SUBMODULES"
GIT_DIFF_RECURSE_UNTRACKED_DIRS == "GIT_DIFF_RECURSE_UNTRACKED_DIRS"

GIT_DIFFCAPS_HAS_SYMLINKS     == "GIT_DIFFCAPS_HAS_SYMLINKS"
GIT_DIFFCAPS_ASSUME_UNCHANGED == "GIT_DIFFCAPS_ASSUME_UNCHANGED"
GIT_DIFFCAPS_TRUST_EXEC_BIT   == "GIT_DIFFCAPS_TRUST_EXEC_BIT"
GIT_DIFFCAPS_TRUST_CTIME      == "GIT_DIFFCAPS_TRUST_CTIME"
GIT_DIFFCAPS_USE_DEV          == "GIT_DIFFCAPS_USE_DEV"

GIT_IDXENTRY_INTENT_TO_ADD == "GIT_IDXENTRY_INTENT_TO_ADD"
GIT_IDXENTRY_SKIP_WORKTREE == "GIT_IDXENTRY_SKIP_WORKTREE"

GIT_ITERATOR_TREE    == "GIT_ITERATOR_TREE"
GIT_ITERATOR_INDEX   == "GIT_ITERATOR_INDEX"
GIT_ITERATOR_WORKDIR == "GIT_ITERATOR_WORKDIR"

GIT_DELTA_UNMODIFIED == "GIT_DELTA_UNMODIFIED"
GIT_DELTA_ADDED      == "GIT_DELTA_ADDED"
GIT_DELTA_DELETED    == "GIT_DELTA_DELETED"
GIT_DELTA_MODIFIED   == "GIT_DELTA_MODIFIED"
GIT_DELTA_IGNORED    == "GIT_DELTA_IGNORED"
GIT_DELTA_UNTRACKED  == "GIT_DELTA_UNTRACKED"

GIT_DIFF_FILE_VALID_OID == "GIT_DIFF_FILE_VALID_OID"

\* a git_diff_file as calloc leaves it, with its path
diff_file(path) ==
    [path |-> path, mode |-> 0, oid |-> 0, size |-> 0, flags |-> {}]

\* diff_delta__alloc
diff_delta__alloc(d, status, path) ==
    [status |-> IF GIT_DIFF_REVERSE \in d.opts.flags
                THEN (CASE status = GIT_DELTA_ADDED -> GIT_DELTA_DELETED
                        [] status = GIT_DELTA_DELETED -> GIT_DELTA_ADDED
                        [] OTHER -> status)
                ELSE status,
     old    |-> diff_file(path),
     new    |-> diff_file(path)]

\* the side of the delta that diff_delta__from_one fills from the entry
diff_file_from(entry) ==
    [path  |-> entry.path, mode |-> entry.mode, oid |-> entry.oid,
     size  |-> entry.file_size, flags |-> {GIT_DIFF_FILE_VALID_OID}]

\* diff_delta__from_one without the test of the pathspec
diff_delta__from_one_nopathspec(d, status, entry) ==
    IF status = GIT_DELTA_IGNORED /\ GIT_DIFF_INCLUDE_IGNORED \notin d.opts.flags
    THEN d
    ELSE IF status = GIT_DELTA_UNTRACKED
            /\ GIT_DIFF_INCLUDE_UNTRACKED \notin d.opts.flags
    THEN d
    ELSE CHOOSE ret \in
        {[d EXCEPT !.deltas = Append(@,
            IF delta.status = GIT_DELTA_DELETED
            THEN [delta EXCEPT !.old = diff_file_from(entry),
                               !.new.flags = {GIT_DIFF_FILE_VALID_OID}]
            ELSE [delta EXCEPT !.new = diff_file_from(entry),
                               !.old.flags = {GIT_DIFF_FILE_VALID_OID}])]
         : delta \in {diff_delta__alloc(d, status, entry.path)}} : TRUE

\* diff_delta__from_one: the git_diff_list after it
diff_delta__from_one(d, status, entry) ==
    IF status = GIT_DELTA_IGNORED /\ GIT_DIFF_INCLUDE_IGNORED \notin d.opts.flags
    THEN d
    ELSE IF status = GIT_DELTA_UNTRACKED
            /\ GIT_DIFF_INCLUDE_UNTRACKED \notin d.opts.flags
    THEN d
    ELSE IF ~diff_path_matches_pathspec(d, entry.path) THEN d
    ELSE CHOOSE ret \in
        {[d EXCEPT !.deltas = Append(@,
            IF delta.status = GIT_DELTA_DELETED
            THEN [delta EXCEPT !.old = diff_file_from(entry),
                               !.new.flags = {GIT_DIFF_FILE_VALID_OID}]
            ELSE [delta EXCEPT !.new = diff_file_from(entry),
                               !.old.flags = {GIT_DIFF_FILE_VALID_OID}])]
         : delta \in {diff_delta__alloc(d, status, entry.path)}} : TRUE

\* diff_delta__from_two: the git_diff_list after it; new_oid is the set of
\* the OID computed for the new item, empty for a null pointer
diff_delta__from_two(d, status, old, new, new_oid) ==
    IF status = GIT_DELTA_UNMODIFIED
       /\ GIT_DIFF_INCLUDE_UNMODIFIED \notin d.opts.flags
    THEN d
    ELSE CHOOSE ret \in
        {[d EXCEPT !.deltas = Append(@,
            [status |-> diff_delta__alloc(d, status, o.path).status,
             old    |-> [path |-> o.path, mode |-> o.mode, oid |-> o.oid,
                         size |-> 0, flags |-> {GIT_DIFF_FILE_VALID_OID}],
             new    |-> [path |-> o.path, mode |-> n.mode,
                         oid  |-> IF new_oid # {} THEN CHOOSE x \in new_oid : TRUE
                                  ELSE n.oid,
                         size |-> 0,
                         flags |-> IF new_oid # {} \/ ~git_oid_iszero(n.oid)
                                   THEN {GIT_DIFF_FILE_VALID_OID} ELSE {}]])]
         : o \in {IF GIT_DIFF_REVERSE \in d.opts.flags THEN new ELSE old},
           n \in {IF GIT_DIFF_REVERSE \in d.opts.flags THEN old ELSE new}} : TRUE

\* the pathspec vector of git_diff_list_alloc: the patterns that parse, from
\* pattern i on
RECURSIVE parse_pathspec(_, _)
parse_pathspec(strings, i) ==
    IF i > Len(strings) THEN <<>>
    ELSE CHOOSE ret \in
        {(IF m.rc = "GIT_ENOTFOUND" THEN <<>> ELSE <<m.match>>)
             \o parse_pathspec(strings, i + 1)
         : m \in {git_attr_fnmatch__parse(strings[i])}} : TRUE

\* the configuration of the repository: core.symlinks, core.ignorestat,
\* core.filemode and core.trustctime as git_diff_list_alloc reads them
diffcaps_of(cfg) ==
    (IF cfg.symlinks THEN {GIT_DIFFCAPS_HAS_SYMLINKS} ELSE {})
    \cup (IF cfg.ignorestat THEN {GIT_DIFFCAPS_ASSUME_UNCHANGED} ELSE {})
    \cup (IF cfg.filemode THEN {GIT_DIFFCAPS_TRUST_EXEC_BIT} ELSE {})
    \cup (IF cfg.trustctime THEN {GIT_DIFFCAPS_TRUST_CTIME} ELSE {})

\* git_diff_list_alloc
git_diff_list_alloc(cfg, opts) ==
    [opts     |-> [flags |-> opts.flags],
     diffcaps |-> diffcaps_of(cfg),
     pathspec |-> IF diff_pathspec_is_interesting(opts.pathspec)
                  THEN parse_pathspec(opts.pathspec, 1) ELSE <<>>,
     deltas   |-> <<>>]

\* the modes maybe_modified compares: the new mode of a plain file standing
\* for a symlink on a platform without symlinks takes the type of the old
\* one, and both lose the exec bits where the exec bit is not trusted
compared_modes(d, oitem, nitem) ==
    CHOOSE ret \in
        {IF GIT_DIFFCAPS_TRUST_EXEC_BIT \notin d.diffcaps
         THEN [omode |-> BitClear(oitem.mode, EXEC_BIT_MASK),
               nmode |-> BitClear(nmode, EXEC_BIT_MASK)]
         ELSE [omode |-> oitem.mode, nmode |-> nmode]
         : nmode \in {IF /\ S_ISLNK(oitem.mode) /\ S_ISREG(nitem.mode)
                         /\ GIT_DIFFCAPS_HAS_SYMLINKS \notin d.diffcaps
                      THEN GIT_MODE_TYPE(oitem.mode)
                               + BitAnd(nitem.mode, mode_mask.PERMS)
                      ELSE nitem.mode}} : TRUE

\* the stat data of the two items look exactly alike
same_stat(d, oitem, nitem) ==
    /\ oitem.file_size = nitem.file_size
    /\ (GIT_DIFFCAPS_TRUST_CTIME \notin d.diffcaps \/ oitem.ctime = nitem.ctime)
    /\ oitem.mtime = nitem.mtime
    /\ (GIT_DIFFCAPS_USE_DEV \notin d.diffcaps \/ oitem.dev = nitem.dev)
    /\ oitem.ino = nitem.ino
    /\ oitem.uid = nitem.uid
    /\ oitem.gid = nitem.gid

\* maybe_modified up to its calls of diff_delta__from_one and
\* diff_delta__from_two: [status, use_noid], the status being "skipped" for a
\* path the pathspec leaves out, "split" for a change of type and "error"
\* for a failure; wd is the outcome of oid_for_workdir_item and sub that of
\* git_submodule_lookup
maybe_modified_status(d, oitem, nitem, new_type, wd, sub) ==
    IF ~diff_path_matches_pathspec(d, oitem.path)
    THEN [status |-> "skipped", use_noid |-> {}]
    ELSE CHOOSE ret \in
        {IF GIT_DIFFCAPS_ASSUME_UNCHANGED \in d.diffcaps
         THEN [status   |-> IF GIT_IDXENTRY_INTENT_TO_ADD \in oitem.flags_extended
                            THEN GIT_DELTA_MODIFIED ELSE GIT_DELTA_UNMODIFIED,
               use_noid |-> {}]
         ELSE IF GIT_IDXENTRY_SKIP_WORKTREE \in oitem.flags_extended
         THEN [status |-> GIT_DELTA_UNMODIFIED, use_noid |-> {}]
         ELSE IF GIT_MODE_TYPE(m.omode) # GIT_MODE_TYPE(m.nmode)
         THEN [status |-> "split", use_noid |-> {}]
         ELSE IF oitem.oid = nitem.oid /\ m.omode = m.nmode
         THEN [status |-> GIT_DELTA_UNMODIFIED, use_noid |-> {}]
         ELSE IF git_oid_iszero(nitem.oid) /\ new_type = GIT_ITERATOR_WORKDIR
         THEN (IF same_stat(d, oitem, nitem)
               THEN [status |-> GIT_DELTA_UNMODIFIED, use_noid |-> {wd.oid}]
               ELSE IF S_ISGITLINK(m.nmode)
               THEN (IF GIT_DIFF_IGNORE_SUBMODULES \in d.opts.flags
                     THEN [status |-> GIT_DELTA_UNMODIFIED, use_noid |-> {wd.oid}]
                     ELSE IF sub.rc < 0
                     THEN [status |-> "error", use_noid |-> {}]
                     ELSE [status |-> GIT_DELTA_UNMODIFIED, use_noid |-> {wd.oid}])
               ELSE IF wd.rc < 0
               THEN [status |-> "error", use_noid |-> {}]
               ELSE IF oitem.oid = wd.oid /\ m.omode = m.nmode
               THEN [status |-> GIT_DELTA_UNMODIFIED, use_noid |-> {wd.oid}]
               ELSE [status |-> GIT_DELTA_MODIFIED, use_noid |-> {wd.oid}])
         ELSE [status |-> GIT_DELTA_MODIFIED, use_noid |-> {}]
         : m \in {compared_modes(d, oitem, nitem)}} : TRUE

\* maybe_modified: [rc, d]
maybe_modified(d, oitem, nitem, new_type, wd, sub) ==
    CHOOSE ret \in
        {CASE s.status = "skipped" -> [rc |-> 0, d |-> d]
           [] s.status = "error"   -> [rc |-> -1, d |-> d]
           [] s.status = "split"   ->
                [rc |-> 0,
                 d  |-> diff_delta__from_one(
                            diff_delta__from_one(d, GIT_DELTA_DELETED, oitem),
                            GIT_DELTA_ADDED, nitem)]
           [] OTHER ->
                [rc |-> 0,
                 d  |-> diff_delta__from_two(d, s.status, oitem, nitem, s.use_noid)]
         : s \in {maybe_modified_status(d, oitem, nitem, new_type, wd, sub)}} : TRUE

\* git__prefixcmp(str, prefix) == 0
git__prefixcmp0(str, prefix) ==
    Len(str) >= Len(prefix) /\ SubSeq(str, 1, Len(prefix)) = prefix

\* the position of the first item from j on whose path does not begin with
\* prefix
RECURSIVE skip_below(_, _, _)
skip_below(it, j, prefix) ==
    IF j <= Len(it.items) /\ git__prefixcmp0(it.items[j].path, prefix)
    THEN skip_below(it, j + 1, prefix) ELSE j

\* git_iterator_advance: the position after item i; a directory of the
\* working directory is passed with everything below it
git_iterator_advance(it, i) ==
    IF S_ISDIR(it.items[i].mode) THEN skip_below(it, i + 1, it.items[i].path)
    ELSE i + 1

\* git_iterator_advance_into_directory: the position of the first item below
\* the directory at i
git_iterator_advance_into_directory(it, i) == i + 1

\* the walk of diff_from_iterators has items left
walk_running(w) ==
    IF w.pc # "loop" THEN FALSE
    ELSE IF w.o <= Len(w.old.items) THEN TRUE
    ELSE w.n <= Len(w.new.items)

\* the old item comes first: it has no match in new
old_first(w) ==
    IF w.o > Len(w.old.items) THEN FALSE
    ELSE IF w.n > Len(w.new.items) THEN TRUE
    ELSE strcmp(w.old.items[w.o].path, w.new.items[w.n].path) < 0

\* the new item comes first: it has no match in old
new_first(w) ==
    IF old_first(w) \/ w.n > Len(w.new.items) THEN FALSE
    ELSE IF w.o > Len(w.old.items) THEN TRUE
    ELSE strcmp(w.old.items[w.o].path, w.new.items[w.n].path) > 0

\* diff_from_iterators, the branch of an old item not matched in new
walk_deleted(w) ==
    [w EXCEPT !.d = diff_delta__from_one(@, GIT_DELTA_DELETED, w.old.items[w.o]),
              !.o = git_iterator_advance(w.old, w.o),
              !.taken_old = Append(@, w.o)]

\* the kind of delta for a new item not matched in old
unmatched_delta_type(w, nitem) ==
    IF S_ISDIR(nitem.mode) THEN GIT_DELTA_UNTRACKED
    ELSE IF nitem.ignored THEN GIT_DELTA_IGNORED
    ELSE IF w.new.type = GIT_ITERATOR_WORKDIR THEN GIT_DELTA_UNTRACKED
    ELSE GIT_DELTA_ADDED

\* diff_from_iterators, the branch of a new item not matched in old
walk_added(w) ==
    CHOOSE ret \in
        {IF w.ignore_prefix # {}
            /\ \E p \in w.ignore_prefix : git__prefixcmp0(nitem.path, p)
         THEN [w EXCEPT !.n = git_iterator_advance(w.new, w.n),
                        !.taken_new = Append(@, w.n)]
         ELSE IF /\ S_ISDIR(nitem.mode)
                 /\ \/ GIT_DIFF_RECURSE_UNTRACKED_DIRS \in w.d.opts.flags
                    \/ /\ w.o <= Len(w.old.items)
                       /\ git__prefixcmp0(w.old.items[w.o].path, nitem.path)
         THEN [w EXCEPT !.ignore_prefix = IF nitem.ignored THEN {nitem.path} ELSE @,
                        !.n = git_iterator_advance_into_directory(w.new, w.n),
                        !.taken_new = Append(@, w.n)]
         ELSE [w EXCEPT !.d = diff_delta__from_one(
                                  @, unmatched_delta_type(w, nitem), nitem),
                        !.n = git_iterator_advance(w.new, w.n),
                        !.taken_new = Append(@, w.n)]
         : nitem \in {w.new.items[w.n]}} : TRUE

\* the branch of two items of one path advancing the old iterator alone
walk_matched_oldonly(w) ==
    CHOOSE ret \in
        {IF r.rc < 0 THEN [w EXCEPT !.pc = "fail"]
         ELSE [w EXCEPT !.d = r.d,
                        !.o = git_iterator_advance(w.old, w.o),
                        !.taken_old = Append(@, w.o)]
         : r \in {maybe_modified(w.d, w.old.items[w.o], w.new.items[w.n],
                                 w.new.type, w.wd, w.sub)}} : TRUE

\* diff_from_iterators, the branch of two items of one path
walk_matched(w) ==
    CHOOSE ret \in
        {IF r.rc < 0 THEN [w EXCEPT !.pc = "fail"]
         ELSE [w EXCEPT !.d = r.d,
                        !.o = git_iterator_advance(w.old, w.o),
                        !.n = git_iterator_advance(w.new, w.n),
                        !.taken_old = Append(@, w.o),
                        !.taken_new = Append(@, w.n)]
         : r \in {maybe_modified(w.d, w.old.items[w.o], w.new.items[w.n],
                                 w.new.type, w.wd, w.sub)}} : TRUE

\* one turn of the loop of diff_from_iterators
walk_turn(w) ==
    IF old_first(w) THEN walk_deleted(w)
    ELSE IF new_first(w) THEN walk_added(w)
    ELSE walk_matched(w)

\* the end of diff_from_iterators: the iterators are freed, the list is
\* returned or freed
walk_return(w) ==
    IF w.pc = "fail"
    THEN [w EXCEPT !.pc = "returned", !.rc = -1, !.freed = TRUE, !.d.deltas = <<>>]
    ELSE [w EXCEPT !.pc = "returned", !.rc = 0, !.freed = TRUE]

\* diff_from_iterators from the state w of its loop on
RECURSIVE walk_loop(_)
walk_loop(w) ==
    IF walk_running(w) THEN walk_loop(walk_turn(w)) ELSE walk_return(w)

\* diff_from_iterators up to its loop: the walk over the iterators old and
\* new under the configuration cfg and the options opts
walk_begin(old, new, cfg, opts, wd, sub) ==
    [old |-> old, new |-> new, cfg |-> cfg, o |-> 1, n |-> 1,
     given |-> opts, wd |-> wd, sub |-> sub,
     d |-> git_diff_list_alloc(cfg, opts),
     ignore_prefix |-> {}, pc |-> "loop", rc |-> 0, freed |-> FALSE,
     taken_old |-> <<>>, taken_new |-> <<>>]

\* diff_from_iterators
diff_from_iterators(old, new, cfg, opts, wd, sub) ==
    walk_loop(walk_begin(old, new, cfg, opts, wd, sub))

\* no diff is computed, no diff is iterated
DiffIdle ==
    /\ diff = [pc |-> "idle"]
    /\ foreach = [pc |-> "idle"]

(* ---------------------------- SpecCache -------------------------------- *)
NoCall == [entry |-> NoEntry, oid |-> NoEntry, flags |-> GIT_CACHE_STORE_ANY]
NoOp   == [op |-> "none", entry |-> NoEntry,
           prev |-> NoEntry, ret |-> NoEntry, evicted |-> {}]

CacheIdle ==
    /\ objects = [e \in Entries |-> NoObject]
    /\ cache = git_cache_init
    /\ pc = [t \in Threads |-> "idle"]
    /\ targ = [t \in Threads |-> NoCall]
    /\ refs = [t \in Threads |-> [e \in Entries |-> 0]]
    /\ last = NoOp

InitCache ==
    /\ parents = <<>>
    /\ ctime = <<>>
    /\ commits = <<>>
    /\ walk = git_revwalk_new
    /\ emitted = <<>>
    /\ hidden = {}
    /\ pushed = {}
    /\ lastrc = "none"
    /\ mb = NoMerge
    /\ CacheIdle
    /\ RunIdle
    /\ DiffIdle
    /\ PackIdle

CacheState == [objects |-> objects, cache |-> cache]

Give(t, e) == IF e = NoEntry THEN refs ELSE [refs EXCEPT ![t][e] = @ + 1]

\* git_cache_store_raw / git_cache_store_parsed of a new object, up to the
\* git_cached_obj_incref that opens cache_store
StoreBegin(t, oid, flags, shape) ==
    /\ pc[t] = "idle"
    /\ \E e \in Entries :
          /\ objects[e] = NoObject
          /\ \A x \in Entries : x < e => objects[x] # NoObject
          /\ objects' = git_cached_obj_incref(
                            [objects EXCEPT ![e] =
                                [new_cached_obj(oid, shape) EXCEPT !.flags = flags]], e)
          /\ targ' = [targ EXCEPT ![t] = [entry |-> e, oid |-> oid, flags |-> flags]]
          /\ last' = NoOp
    /\ pc' = [pc EXCEPT ![t] = "store"]
    /\ UNCHANGED <<cache, refs, walkvars, runvars, packvars, diffvars>>

\* cache_store: the object is not to be cached, the entry is returned
StoreBypass(t) ==
    /\ pc[t] = "store"
    /\ ~cache_should_store(objects[targ[t].entry].type, objects[targ[t].entry].size)
    /\ pc' = [pc EXCEPT ![t] = "idle"]
    /\ targ' = [targ EXCEPT ![t] = NoCall]
    /\ refs' = Give(t, targ[t].entry)
    /\ last' = NoOp
    /\ UNCHANGED <<objects, cache, walkvars, runvars, packvars, diffvars>>

\* cache_store of an object to be cached: git_mutex_lock, the locked section,
\* git_mutex_unlock and the return
StoreLocked(t) ==
    /\ pc[t] = "store"
    /\ cache_should_store(objects[targ[t].entry].type, objects[targ[t].entry].size)
    /\ cache.lock = NoThread
    /\ LET r == cache_store(CacheState, targ[t].entry)
       IN  /\ objects' = r.objects
           /\ cache' = r.cache
           /\ refs' = Give(t, r.ret)
           /\ last' = [NoOp EXCEPT !.op = "store", !.entry = targ[t].entry,
                                   !.prev = cache.map[targ[t].oid], !.ret = r.ret]
    /\ pc' = [pc EXCEPT ![t] = "idle"]
    /\ targ' = [targ EXCEPT ![t] = NoCall]
    /\ UNCHANGED <<walkvars, runvars, packvars, diffvars>>

\* git_cache_get_raw / _parsed / _any: cache_get from git_mutex_lock to
\* git_mutex_unlock and the return
Get(t, oid, flags) ==
    /\ pc[t] = "idle"
    /\ cache.lock = NoThread
    /\ cache.map[oid] # NoEntry => refs[t][cache.map[oid]] < MaxRefs
    /\ LET r == cache_get(CacheState, oid, flags)
       IN  /\ objects' = r.objects
           /\ refs' = Give(t, r.ret)
           /\ last' = NoOp
    /\ UNCHANGED <<cache, pc, targ, walkvars, runvars, packvars, diffvars>>

\* the caller releases a reference it was given: git_cached_obj_decref
Release(t, e) ==
    /\ pc[t] = "idle"
    /\ refs[t][e] > 0
    /\ objects' = git_cached_obj_decref(objects, e)
    /\ refs' = [refs EXCEPT ![t][e] = @ - 1]
    /\ last' = NoOp
    /\ UNCHANGED <<cache, pc, targ, walkvars, runvars, packvars, diffvars>>

\* cache_evict_entries, called with the lock
Evict(evict_count) ==
    /\ \E t \in Threads : pc[t] = "idle"
    /\ cache.lock = NoThread
    /\ \E victims \in (IF evict_count > kh_size(cache.map) THEN {{}}
                       ELSE EvictChoices(cache.map, evict_count)) :
          LET r == cache_evict_entries(CacheState, evict_count, victims)
          IN  /\ objects' = r.objects
              /\ cache' = r.cache
              /\ last' = [NoOp EXCEPT
                             !.op = "evict",
                             !.evicted = {[entry |-> cache.map[o],
                                           refcount |-> objects[cache.map[o]].refcount]
                                          : o \in {v \in Oids : r.cache.map[v] # cache.map[v]}}]
    /\ UNCHANGED <<pc, targ, refs, walkvars, runvars, packvars, diffvars>>

StoreFlags == {GIT_CACHE_STORE_RAW, GIT_CACHE_STORE_PARSED}
GetFlags   == {GIT_CACHE_STORE_RAW, GIT_CACHE_STORE_PARSED, GIT_CACHE_STORE_ANY}

NextCache ==
    \/ \E t \in Threads, oid \in Oids, flags \in StoreFlags, shape \in ObjectShapes :
          StoreBegin(t, oid, flags, shape)
    \/ \E t \in Threads : StoreBypass(t)
    \/ \E t \in Threads : StoreLocked(t)
    \/ \E t \in Threads, oid \in Oids, flags \in GetFlags : Get(t, oid, flags)
    \/ \E t \in Threads, e \in Entries : Release(t, e)
    \/ \E evict_count \in 0..NumOids : Evict(evict_count)

SpecCache == InitCache /\ [][NextCache]_vars

InMap(e) == \E o \in Oids : cache.map[o] = e

RECURSIVE RefsHeld(_, _)
RefsHeld(ts, e) ==
    IF ts = {} THEN 0
    ELSE LET t == CHOOSE x \in ts : TRUE
         IN  refs[t][e] + RefsHeld(ts \ {t}, e)

\* the cache_store calls that hold their temporary reference on e
InFlight(e) == Cardinality({t \in Threads : pc[t] = "store" /\ targ[t].entry = e})

\* C5: every entry the cache map holds has refcount >= 1 and is not freed
C5_MapHoldsLiveEntries ==
    \A o \in Oids :
        cache.map[o] # NoEntry =>
            objects[cache.map[o]].refcount >= 1 /\ ~objects[cache.map[o]].freed

\* an eviction has freed an unreferenced entry and left another one cached
C5_Witness ==
    /\ last.op = "evict"
    /\ \E r \in last.evicted : r.refcount = 1 /\ objects[r.entry].freed
    /\ \E o \in Oids : cache.map[o] # NoEntry /\ objects[cache.map[o]].refcount >= 2

\* C6: the refcount of every entry is the number of references its callers
\* hold (those of the cache_store calls in progress included) plus one if the
\* map holds it; cache_store returns an entry its caller now holds, and a
\* passed-in entry that is not the one returned has lost its temporary reference
C6_OneOwnedReference ==
    /\ \A e \in Entries :
          objects[e] # NoObject =>
              IF objects[e].freed
              THEN /\ objects[e].refcount = 0
                   /\ RefsHeld(Threads, e) = 0 /\ InFlight(e) = 0 /\ ~InMap(e)
              ELSE objects[e].refcount =
                       RefsHeld(Threads, e) + InFlight(e) + (IF InMap(e) THEN 1 ELSE 0)
    /\ last.op = "store" =>
          /\ last.ret # NoEntry
          /\ ~objects[last.ret].freed
          /\ RefsHeld(Threads, last.ret) >= 1
          /\ last.ret # last.entry => objects[last.entry].freed

\* cache_store has met a cached entry of the same kind: the caller holds the
\* cached entry next to the map, the entry passed in is gone
C6_Witness ==
    /\ last.op = "store"
    /\ last.ret # last.entry
    /\ objects[last.entry].freed
    /\ objects[last.ret].refcount >= 2

\* the entry the map is to hold for the oid once cache_store(entry) met prev
StoredAfter(prev, entry) ==
    IF prev = NoEntry THEN entry
    ELSE IF objects[prev].flags = objects[entry].flags THEN prev
    ELSE IF /\ objects[prev].flags = GIT_CACHE_STORE_RAW
            /\ objects[entry].flags = GIT_CACHE_STORE_PARSED THEN entry
    ELSE prev

RECURSIVE AncestorsOrSelf(_)
AncestorsOrSelf(c) ==
    {c} \cup UNION {AncestorsOrSelf(parents[c][i]) : i \in 1..Len(parents[c])}

Ancestors(c) == UNION {AncestorsOrSelf(parents[c][i]) : i \in 1..Len(parents[c])}

CommonAncestors(a, b) == AncestorsOrSelf(a) \cap AncestorsOrSelf(b)

(* ---------------------------- SpecSizes -------------------------------- *)
\* the (type, size) pairs of the objects whose sizes are accounted: two sizes
\* that are cached and one that is not
SizedShapes ==
    ObjectShapes \cup {[type |-> "GIT_OBJ_COMMIT", size |-> 4095]}

\* the operations of one thread on objects of several sizes
NextSizes ==
    \/ \E oid \in Oids, flags \in StoreFlags, shape \in SizedShapes :
          StoreBegin(1, oid, flags, shape)
    \/ StoreBypass(1)
    \/ StoreLocked(1)
    \/ \E oid \in Oids, flags \in GetFlags : Get(1, oid, flags)
    \/ \E e \in Entries : Release(1, e)
    \/ \E evict_count \in 0..NumOids : Evict(evict_count)

SpecSizes == InitCache /\ [][NextSizes]_vars

\* the sizes of the entries the map holds, added up
RECURSIVE HeldMemory(_)
HeldMemory(os) ==
    IF os = {} THEN 0
    ELSE CHOOSE sum \in
             {(IF cache.map[o] = NoEntry THEN 0 ELSE objects[cache.map[o]].size)
                  + HeldMemory(os \ {o})
              : o \in {CHOOSE x \in os : TRUE}} : TRUE

Observer    == NumThreads + 1
RaceThreads == Threads \cup {Observer}

\* the entries the racing calls pass in; the entry before them is cached
\* when the calls begin
CallEntries == {e \in Entries : e > 1}

\* the cache holds one entry, which only the map references
InitRace ==
    /\ parents = <<>>
    /\ ctime = <<>>
    /\ commits = <<>>
    /\ walk = git_revwalk_new
    /\ emitted = <<>>
    /\ hidden = {}
    /\ pushed = {}
    /\ lastrc = "none"
    /\ mb = NoMerge
    /\ RunIdle
    /\ DiffIdle
    /\ PackIdle
    /\ \E oid \in Oids, flags \in StoreFlags :
       \E shape \in {sh \in ObjectShapes : cache_should_store(sh.type, sh.size)} :
          /\ objects = [e \in Entries |->
                           IF e \in CallEntries THEN NoObject
                           ELSE [new_cached_obj(oid, shape) EXCEPT
                                    !.flags = flags, !.refcount = 1]]
          /\ cache = [git_cache_init EXCEPT
                          !.map = [o \in Oids |->
                                      IF o = oid
                                      THEN CHOOSE e \in Entries : e \notin CallEntries
                                      ELSE NoEntry],
                          !.used_memory = shape.size]
    /\ pc = [t \in RaceThreads |-> "idle"]
    /\ targ = [t \in RaceThreads |-> NoCall]
    /\ refs = [t \in RaceThreads |-> [e \in Entries |-> 0]]
    /\ last = NoOp

\* the entries thread t was handed and has not released
Held(t) == {e \in Entries : refs[t][e] > 0}

\* a storing thread begins its one call of git_cache_store_raw / _parsed
RaceStoreBegin(t, oid, flags, shape) ==
    /\ Held(t) = {}
    /\ StoreBegin(t, oid, flags, shape)

\* each storing thread calls cache_store once; the observer calls cache_get
NextRace ==
    \/ \E t \in Threads, oid \in Oids, flags \in StoreFlags, shape \in ObjectShapes :
          RaceStoreBegin(t, oid, flags, shape)
    \/ \E t \in Threads : StoreBypass(t)
    \/ \E t \in Threads : StoreLocked(t)
    \/ \E oid \in Oids, flags \in GetFlags : Get(Observer, oid, flags)

SpecRace == InitRace /\ [][NextRace]_vars

\* both calls of cache_store have returned
RaceOver == \A t \in Threads : pc[t] = "idle" /\ Held(t) # {}

\* the two calls passed distinct cached-size entries of one OID and one kind
SameCall ==
    \A e \in CallEntries :
        /\ objects[e] # NoObject
        /\ cache_should_store(objects[e].type, objects[e].size)
        /\ \A f \in CallEntries :
              /\ objects[e].oid = objects[f].oid
              /\ objects[e].flags = objects[f].flags

\* the OID and the kind of the racing calls
RaceOid   == objects[CHOOSE e \in CallEntries : TRUE].oid
RaceFlags == objects[CHOOSE e \in CallEntries : TRUE].flags

\* the entries of the raced OID that cache_get gave the observer
Observed == {e \in Held(Observer) : objects[e].oid = RaceOid}

\* both calls returned w, the one entry the map holds for the OID; the
\* entries passed in that lost are freed; w counts the map, the two callers
\* and the observer
OneWinner(w) ==
    /\ \A t \in Threads : Held(t) = {w}
    /\ cache.map[RaceOid] = w
    /\ \A e \in CallEntries \ {w} : objects[e].freed
    /\ ~objects[w].freed
    /\ objects[w].refcount = 1 + NumThreads + refs[Observer][w]

ParsedKept ==
    /\ RaceFlags = GIT_CACHE_STORE_RAW
    /\ cache.map[RaceOid] # NoEntry
    /\ objects[cache.map[RaceOid]].flags = GIT_CACHE_STORE_PARSED

Init ==
    /\ parents \in Dags(NumCommits)
    /\ ctime \in [Commits -> Times]
    /\ commits = [c \in Commits |-> commit_object]
    /\ walk = git_revwalk_new
    /\ emitted = <<>>
    /\ hidden = {}
    /\ pushed = {}
    /\ lastrc = "none"
    /\ mb = NoMerge
    /\ CacheIdle
    /\ RunIdle
    /\ DiffIdle
    /\ PackIdle

State == [cs |-> commits, w |-> walk]
Alive == lastrc # "SIGSEGV"
NumTips == Len(walk.twos) + (IF walk.one = NoCommit THEN 0 ELSE 1)

\* git_revwalk_push(walk, oid)
Push(oid) ==
    /\ Alive /\ ~walk.walking /\ NumTips < MaxTips
    /\ LET st == push_commit(State, oid, FALSE)
       IN  commits' = st.cs /\ walk' = st.w
    /\ pushed' = pushed \cup {oid}
    /\ lastrc' = "GIT_SUCCESS"
    /\ UNCHANGED <<parents, ctime, emitted, hidden, mb, cachevars, runvars, packvars, diffvars>>

\* git_revwalk_hide(walk, oid)
Hide(oid) ==
    /\ Alive /\ ~walk.walking /\ NumTips < MaxTips
    /\ LET st == push_commit(State, oid, TRUE)
       IN  commits' = st.cs /\ walk' = st.w
    /\ hidden' = hidden \cup {oid}
    /\ lastrc' = "GIT_SUCCESS"
    /\ UNCHANGED <<parents, ctime, emitted, pushed, mb, cachevars, runvars, packvars, diffvars>>

\* git_revwalk_sorting(walk, sort_mode)
Sorting(sort_mode) ==
    /\ Alive
    /\ LET st == git_revwalk_sorting(State, sort_mode)
       IN  commits' = st.cs /\ walk' = st.w
    /\ emitted' = <<>>
    /\ lastrc' = "GIT_SUCCESS"
    /\ UNCHANGED <<parents, ctime, hidden, pushed, mb, cachevars, runvars, packvars, diffvars>>

\* git_revwalk_next(&oid, walk)
RevwalkNext ==
    /\ Alive
    /\ walk.walking \/ walk.one # NoCommit
    /\ \E r \in git_revwalk_next(State) :
          /\ commits' = r.st.cs
          /\ walk' = r.st.w
          /\ lastrc' = r.rc
          /\ emitted' = IF r.rc = "GIT_SUCCESS" THEN Append(emitted, r.out) ELSE <<>>
    /\ UNCHANGED <<parents, ctime, hidden, pushed, mb, cachevars, runvars, packvars, diffvars>>

\* git_revwalk_next(&oid, walk) before any git_revwalk_push: prepare_walk hands
\* walk->one == NULL to merge_bases_many, whose commit_parse dereferences it
RevwalkNextNoTip ==
    /\ Alive
    /\ ~walk.walking /\ walk.one = NoCommit
    /\ lastrc' = "SIGSEGV"
    /\ UNCHANGED <<parents, ctime, commits, walk, emitted, hidden, pushed, mb, cachevars, runvars, packvars, diffvars>>

\* git_revwalk_reset(walk)
Reset ==
    /\ Alive
    /\ LET st == git_revwalk_reset(State)
       IN  commits' = st.cs /\ walk' = st.w
    /\ emitted' = <<>>
    /\ lastrc' = "GIT_SUCCESS"
    /\ UNCHANGED <<parents, ctime, hidden, pushed, mb, cachevars, runvars, packvars, diffvars>>

Next ==
    \/ \E oid \in Commits : Push(oid)
    \/ \E oid \in Commits : Hide(oid)
    \/ \E sort_mode \in SortModes : Sorting(sort_mode)
    \/ RevwalkNext
    \/ RevwalkNextNoTip
    \/ Reset

Spec == Init /\ [][Next]_vars

HiddenCommits == UNION {AncestorsOrSelf(h) : h \in hidden}

\* C1: git_revwalk_next never emits a hidden commit nor an ancestor of one
C1_HiddenNeverEmitted == Range(emitted) \cap HiddenCommits = {}

\* C2: within one run git_revwalk_next emits each OID at most once
C2_EmittedOnce == NoRepeat(emitted)

C2_Witness ==
    /\ Len(emitted) >= 3
    /\ \E i \in 1..Len(walk.twos) : walk.twos[i] = walk.one
    /\ \E c \in Range(emitted) : Len(parents[c]) = 2 /\ Range(parents[c]) \subseteq Range(emitted)

\* the pairs parent/child among the emitted commits are emitted child first
ChildBeforeParent ==
    \A i, j \in 1..Len(emitted) :
        emitted[j] \in Range(parents[emitted[i]]) => i < j

\* C9: under GIT_SORT_TOPOLOGICAL without GIT_SORT_REVERSE, of two emitted
\* commits of which one is a parent of the other the child is emitted first
C9_TopologicalOrder ==
    (/\ walk.sorting \cap GIT_SORT_TOPOLOGICAL # {}
     /\ walk.sorting \cap GIT_SORT_REVERSE = {}) => ChildBeforeParent

\* a history the unsorted walk emits parent first (3, 1, 2): the topological
\* walk has delayed commit 1 until commit 2 was emitted
C9_Witness ==
    /\ walk.sorting = GIT_SORT_TOPOLOGICAL
    /\ parents[3] = <<2, 1>> /\ parents[2] = <<1>>
    /\ emitted = <<3, 2, 1>>

NoParentNewer ==
    \A c \in Commits : \A i \in 1..Len(parents[c]) : ctime[parents[c][i]] <= ctime[c]

IsPrefix(s, t) == Len(s) <= Len(t) /\ \A i \in 1..Len(s) : s[i] = t[i]

\* C10: under GIT_SORT_TIME alone, on a history in which no parent is newer
\* than its child, the emitted committer times never increase; the linear
\* history 1 <- 2 <- 3 with t1 < t2 < t3 and push(3) yields 3, 2, 1
C10_TimeOrder ==
    (walk.sorting = GIT_SORT_TIME /\ NoParentNewer) =>
        /\ \A i, j \in 1..Len(emitted) :
              i < j => ctime[emitted[i]] >= ctime[emitted[j]]
        /\ (/\ parents = <<<<>>, <<1>>, <<2>>>>
            /\ ctime[1] < ctime[2] /\ ctime[2] < ctime[3]
            /\ walk.one = 3 /\ walk.twos = <<>>) => IsPrefix(emitted, <<3, 2, 1>>)

C10_Witness ==
    /\ walk.sorting = GIT_SORT_TIME
    /\ parents = <<<<>>, <<1>>, <<2>>>>
    /\ ctime = <<1, 2, 3>>
    /\ walk.one = 3 /\ walk.twos = <<>>
    /\ emitted = <<3, 2, 1>>

\* the commits reachable from a pushed tip and from no hidden tip
Interesting == UNION {AncestorsOrSelf(p) : p \in pushed} \ HiddenCommits

Children(c) == {d \in Commits : c \in Range(parents[d])}

\* the commits that may come at position k of the walk: not emitted before k,
\* every child of theirs emitted before k
Eligible(k) ==
    LET before == {emitted[i] : i \in 1..(k - 1)}
    IN  {c \in Interesting \ before : (Children(c) \cap Interesting) \subseteq before}

\* C12: under GIT_SORT_TOPOLOGICAL | GIT_SORT_TIME every emitted commit is, at
\* its position, the newest of the commits whose children are all emitted
C12_NewestEligibleFirst ==
    walk.sorting = (GIT_SORT_TOPOLOGICAL \cup GIT_SORT_TIME) =>
        \A k \in 1..Len(emitted) :
            \A c \in Eligible(k) : ctime[c] <= ctime[emitted[k]]

\* what git_revwalk_reset is to leave behind
ResetDone ==
    /\ \A c \in DOMAIN commits :
          /\ ~commits[c].seen /\ ~commits[c].uninteresting /\ ~commits[c].topo_delay
          /\ commits[c].in_degree = 0
          /\ commits[c].flags = {}
    /\ walk.iterator_time = {} /\ walk.iterator_topo = <<>>
    /\ walk.iterator_rand = <<>> /\ walk.iterator_reverse = <<>>
    /\ ~walk.walking

\* C14: every git_revwalk_reset, explicit or at the end of the walk, leaves
\* every commit without seen, uninteresting, topo_delay, in_degree, PARENT1,
\* PARENT2, RESULT and STALE, every iterator queue empty and walking at 0
C14_ResetClearsAllFlags ==
    [][(Reset \/ (RevwalkNext /\ lastrc' = "GIT_EREVWALKOVER")) => ResetDone']_vars

(* ---------------------------- SpecRuns --------------------------------- *)
\* A walker is configured, then iterated MaxRuns times without any change of
\* its configuration; start and runs record the iterations.

\* the caller's loop: git_revwalk_next until it returns GIT_EREVWALKOVER; the
\* sequences of OIDs the loop can collect
RECURSIVE walk_until_over(_, _)
walk_until_over(st, acc) ==
    UNION {
        IF r.rc = "GIT_SUCCESS" THEN walk_until_over(r.st, Append(acc, r.out))
        ELSE {acc}
        : r \in git_revwalk_next(st)}

Configuring == start = NoStart /\ runs = <<>>

Configure ==
    /\ Configuring
    /\ \/ \E oid \in Commits : Push(oid)
       \/ \E oid \in Commits : Hide(oid)
       \/ \E sort_mode \in SortModes : Sorting(sort_mode)

\* git_revwalk_next(&oid, walk) on a walker with a pushed tip
RunNext ==
    /\ Alive
    /\ walk.one # NoCommit
    /\ Len(runs) < MaxRuns
    /\ \E r \in git_revwalk_next(State) :
          /\ commits' = r.st.cs
          /\ walk' = r.st.w
          /\ lastrc' = r.rc
          /\ emitted' = IF r.rc = "GIT_SUCCESS" THEN Append(emitted, r.out) ELSE <<>>
          /\ runs' = IF r.rc = "GIT_SUCCESS" THEN runs
                     ELSE Append(runs, [seq |-> emitted, over |-> TRUE])
    /\ start' = IF walk.walking THEN start ELSE State
    /\ UNCHANGED <<parents, ctime, hidden, pushed, mb, cachevars, packvars, diffvars>>

\* git_revwalk_reset(walk) in the middle of an iteration
RunReset ==
    /\ Alive
    /\ walk.walking
    /\ Len(runs) < MaxRuns
    /\ LET st == git_revwalk_reset(State)
       IN  commits' = st.cs /\ walk' = st.w
    /\ emitted' = <<>>
    /\ lastrc' = "GIT_SUCCESS"
    /\ runs' = Append(runs, [seq |-> emitted, over |-> FALSE])
    /\ UNCHANGED <<parents, ctime, hidden, pushed, mb, start, cachevars, packvars, diffvars>>

NextRuns ==
    \/ Configure
    \/ RunNext
    \/ RunReset

SpecRuns == Init /\ [][NextRuns]_vars

Reverse(s) == [i \in 1..Len(s) |-> s[Len(s) + 1 - i]]

\* the sequences the walker st emits when GIT_SORT_REVERSE is taken out of its
\* sorting mode
Forward(st) ==
    walk_until_over(git_revwalk_sorting(st, st.w.sorting \ GIT_SORT_REVERSE), <<>>)

\* C11: the first iteration of a walker sorted by S | GIT_SORT_REVERSE emits
\* (what it has emitted followed by what it still holds in iterator_reverse,
\* and in the end the whole sequence) the reverse of a sequence the same
\* walker emits under S; under a deterministic S that sequence is the only one
C11_ReverseOfForward ==
    (start # NoStart /\ start.w.sorting \cap GIT_SORT_REVERSE # {}) =>
        /\ (runs = <<>> /\ walk.walking) =>
              \E s \in Forward(start) : emitted \o walk.iterator_reverse = Reverse(s)
        /\ (Len(runs) = 1 /\ runs[1].over /\ lastrc = "GIT_EREVWALKOVER") =>
              \E s \in Forward(start) : runs[1].seq = Reverse(s)

C11_Witness ==
    /\ Len(runs) = 1 /\ runs[1].over /\ lastrc = "GIT_EREVWALKOVER"
    /\ start.w.sorting = (GIT_SORT_TIME \cup GIT_SORT_REVERSE)
    /\ hidden # {}
    /\ runs[1].seq = <<2, 3>>

\* a sorting mode that leaves no choice: no time order, or no two commits of
\* the same time
DeterministicSort ==
    \/ walk.sorting \cap GIT_SORT_TIME = {}
    \/ \A a, b \in Commits : a # b => ctime[a] # ctime[b]

\* C13: under a deterministic sort the second iteration of a walker returns
\* the OIDs of the first one: the same sequence when both ran until
\* GIT_EREVWALKOVER, one a prefix of the other when git_revwalk_reset cut one
\* short; and no commit hidden in the first
C13_SecondIterationSame ==
    (Len(runs) = 2 /\ DeterministicSort) =>
        /\ (runs[1].over /\ runs[2].over) => runs[2].seq = runs[1].seq
        /\ IsPrefix(runs[1].seq, runs[2].seq) \/ IsPrefix(runs[2].seq, runs[1].seq)
        /\ Range(runs[2].seq) \cap HiddenCommits = {}

\* the sequences the walker st emits when GIT_SORT_TOPOLOGICAL is taken out
\* of its sorting mode
Untopological(st) ==
    walk_until_over(git_revwalk_sorting(st, st.w.sorting \ GIT_SORT_TOPOLOGICAL), <<>>)

\* C28: the first iteration of a walker, run until GIT_EREVWALKOVER, has
\* emitted every commit reachable from a pushed tip and from no hidden tip, in
\* every sorting mode; and under GIT_SORT_TOPOLOGICAL it has emitted the set
\* of commits of a walk of the same walker without GIT_SORT_TOPOLOGICAL (of
\* one of them, where commits of equal time leave the time-sorted walk a
\* choice)
C28_WalkComplete ==
    (Len(runs) >= 1 /\ runs[1].over) =>
        /\ Interesting \subseteq Range(runs[1].seq)
        /\ (/\ Len(runs) = 1 /\ lastrc = "GIT_EREVWALKOVER"
            /\ start.w.sorting \cap GIT_SORT_TOPOLOGICAL # {}) =>
              \E s \in Untopological(start) : Range(s) = Range(runs[1].seq)

C28_Witness ==
    /\ Len(runs) = 1 /\ runs[1].over /\ lastrc = "GIT_EREVWALKOVER"
    /\ start.w.sorting = GIT_SORT_TOPOLOGICAL
    /\ runs[1].seq = <<3, 2, 1>>
    /\ parents[3] = <<1, 2>> /\ parents[2] = <<1>>
    /\ pushed = {3}

(* -------------------------- SpecRunsLive ------------------------------- *)
\* The caller keeps calling git_revwalk_next until it returns
\* GIT_EREVWALKOVER and never resets the walker.
RunFirst == runs = <<>> /\ RunNext

NextRunsLive ==
    \/ Configure
    \/ RunFirst

SpecRunsLive == Init /\ [][NextRunsLive]_vars /\ WF_vars(NextRunsLive)

\* the first iteration ended with every interesting commit emitted
OverOnlyWhenDone ==
    (Len(runs) >= 1 /\ runs[1].over) => Interesting \subseteq Range(runs[1].seq)

MissingOid == NumCommits + 1
AnyOid == Commits \cup {MissingOid}

\* commit_lookup interns whatever OID it is given
InitPush ==
    /\ parents \in Dags(NumCommits)
    /\ ctime \in [Commits -> Times]
    /\ commits = [c \in AnyOid |-> commit_object]
    /\ walk = git_revwalk_new
    /\ emitted = <<>>
    /\ hidden = {}
    /\ pushed = {}
    /\ lastrc = "none"
    /\ mb = NoMerge
    /\ CacheIdle
    /\ RunIdle
    /\ DiffIdle
    /\ PackIdle

Tips == (IF walk.one = NoCommit THEN {} ELSE {walk.one}) \cup Range(walk.twos)

\* git_revwalk_next when every tip names a commit
NextOnCommits == MissingOid \notin Tips /\ RevwalkNext

\* git_revwalk_next when walk->one names no object: merge_bases_many returns
\* the error of commit_parse(walk, one), that is of git_odb_read, before it
\* has written anything
NextOnMissingOne ==
    /\ Alive
    /\ ~walk.walking
    /\ walk.one = MissingOid
    /\ MissingOid \notin Range(walk.twos)
    /\ lastrc' = "GIT_ENOTFOUND"
    /\ UNCHANGED <<parents, ctime, commits, walk, emitted, hidden, pushed, mb,
                   cachevars, runvars, packvars, diffvars>>

NextPush ==
    \/ \E oid \in AnyOid : Push(oid)
    \/ \E oid \in AnyOid : Hide(oid)
    \/ NextOnCommits
    \/ NextOnMissingOne

SpecPush == InitPush /\ [][NextPush]_vars

\* C15: git_revwalk_push and git_revwalk_hide of an OID that names no commit
\* return GIT_ENOTFOUND and leave walk->one and walk->twos as they were
C15_MissingOidNotFound ==
    [][(Push(MissingOid) \/ Hide(MissingOid)) =>
          (lastrc' = "GIT_ENOTFOUND" /\ walk'.one = walk.one /\ walk'.twos = walk.twos)]_vars

(* ---------------------------- SpecIndex -------------------------------- *)
\* One pack with an index of at most MaxObjects objects is looked up by every
\* short and full OID.
OnlyPack == <<"a">>

InitIndex ==
    /\ parents = <<>>
    /\ ctime = <<>>
    /\ commits = <<>>
    /\ walk = git_revwalk_new
    /\ emitted = <<>>
    /\ hidden = {}
    /\ pushed = {}
    /\ lastrc = "none"
    /\ mb = NoMerge
    /\ CacheIdle
    /\ RunIdle
    /\ DiffIdle
    /\ \E S \in {T \in SUBSET AllOids : Cardinality(T) <= MaxObjects} :
          dir = [files |-> [n \in PackNames |->
                               IF n = OnlyPack
                               THEN [index |-> index_file(S), present |-> TRUE,
                                     pack |-> "good", mtime |-> 1]
                               ELSE NoFile],
                 mtime |-> 1]
    /\ backend = [packs |-> <<[pack_name |-> OnlyPack \o DotPack, index_map |-> NoIndex,
                               fd |-> FALSE, verified |-> FALSE, mtime |-> 1]>>,
                  last_found |-> NoPack, pack_folder_mtime |-> 1, examined |-> <<>>]
    /\ query = NoQuery
    /\ enomem = FALSE

\* pack_entry_find_offset(&offset, &found_oid, p, short_oid, len)
FindOffset(short_oid, len) ==
    /\ LET r == pack_entry_find_offset(backend.packs[1], short_oid, len)
       IN  /\ backend' = [backend EXCEPT !.packs[1] = r.p]
           /\ query' = [NoQuery EXCEPT !.op = "find_offset", !.short_oid = short_oid,
                                       !.len = len, !.rc = r.rc, !.offset = r.offset,
                                       !.oid = r.oid]
    /\ UNCHANGED <<walkvars, cachevars, runvars, dir, enomem, diffvars>>

NextIndex == \E len \in MinPrefixLen..OidLen : \E short_oid \in ShortOids(len) :
                FindOffset(short_oid, len)

SpecIndex == InitIndex /\ [][NextIndex]_vars

\* the positions of the index whose OID starts with the first len digits of o
PrefixMatches(index, o, len) ==
    {i \in 1..Len(index.sha1) : \A k \in 1..len : index.sha1[i][k] = o[k]}

BackendOids == {<<0, 0, 0, 0>>, <<0, 0, 1, 0>>}

\* the OIDs the backend is asked for: those and one no pack has
QueryOids == BackendOids \cup {<<1, 1, 1, 1>>}

\* the first len digits of oid, the rest zeroed
short_of(oid, len) == [k \in 1..OidLen |-> IF k <= len THEN oid[k] ELSE 0]

\* the contents a pack can have
PackContents == {index_file(S) : S \in SUBSET BackendOids \ {{}}}

InitPack ==
    /\ parents = <<>>
    /\ ctime = <<>>
    /\ commits = <<>>
    /\ walk = git_revwalk_new
    /\ emitted = <<>>
    /\ hidden = {}
    /\ pushed = {}
    /\ lastrc = "none"
    /\ mb = NoMerge
    /\ CacheIdle
    /\ RunIdle
    /\ DiffIdle
    /\ \E c \in [PackNames -> PackContents] :
          dir = [files |-> [n \in PackNames |->
                               [index |-> c[n], present |-> FALSE, pack |-> "missing",
                                mtime |-> 0]],
                 mtime |-> 1]
    /\ backend = [packs |-> <<>>, last_found |-> NoPack, pack_folder_mtime |-> 0,
                  examined |-> <<>>]
    /\ query = NoQuery
    /\ enomem = FALSE

\* another process writes the pack name (index and packfile), once; the
\* directory's mtime moves on when bump, and stays within the same second
\* otherwise
WritePack(name, bump) ==
    /\ ~dir.files[name].present /\ dir.files[name].mtime = 0
    /\ bump => dir.mtime < MaxMtime
    /\ LET now == IF bump THEN dir.mtime + 1 ELSE dir.mtime
       IN  dir' = [dir EXCEPT !.files[name].present = TRUE,
                              !.files[name].pack = "good",
                              !.files[name].mtime = now,
                              !.mtime = now]
    /\ query' = NoQuery
    /\ UNCHANGED <<walkvars, cachevars, runvars, backend, enomem, diffvars>>

\* another process removes the pack name (index and packfile)
RemovePack(name, bump) ==
    /\ dir.files[name].present
    /\ bump => dir.mtime < MaxMtime
    /\ dir' = [dir EXCEPT !.files[name].present = FALSE,
                          !.files[name].pack = "missing",
                          !.mtime = IF bump THEN dir.mtime + 1 ELSE dir.mtime]
    /\ query' = NoQuery
    /\ UNCHANGED <<walkvars, cachevars, runvars, backend, enomem, diffvars>>

\* pack_backend__exists(backend, oid)
pack_backend__exists(oid) ==
    /\ \E f \in packfile_refresh_all([backend EXCEPT !.examined = <<>>]) :
          \E r \in {IF f.rc # "GIT_SUCCESS"
                    THEN [rc |-> f.rc, e |-> NoEntryFound, b |-> f.b]
                    ELSE pack_entry_find(f.b, oid)} :
              /\ backend' = r.b
              /\ query' = [op |-> "exists", short_oid |-> oid, len |-> OidLen,
                           rc |-> r.rc, offset |-> r.e.offset, oid |-> r.e.sha1,
                           pack |-> r.e.p,
                           observed |-> dir.mtime # backend.pack_folder_mtime]
    /\ UNCHANGED <<walkvars, cachevars, runvars, dir, enomem, diffvars>>

\* pack_backend__read_prefix(out_oid, ..., backend, short_oid, len), up to
\* the unpacking of the entry found
pack_backend__read_prefix(short_oid, len) ==
    /\ len >= MinPrefixLen /\ len < OidLen
    /\ \E f \in packfile_refresh_all([backend EXCEPT !.examined = <<>>]) :
          \E r \in {IF f.rc # "GIT_SUCCESS"
                    THEN [rc |-> f.rc, e |-> NoEntryFound, b |-> f.b]
                    ELSE pack_entry_find_prefix(f.b, short_oid, len)} :
              /\ backend' = r.b
              /\ query' = [op |-> "read_prefix", short_oid |-> short_oid, len |-> len,
                           rc |-> r.rc, offset |-> r.e.offset, oid |-> r.e.sha1,
                           pack |-> r.e.p,
                           observed |-> dir.mtime # backend.pack_folder_mtime]
    /\ UNCHANGED <<walkvars, cachevars, runvars, dir, enomem, diffvars>>

NextPack ==
    \/ \E name \in PackNames : \E bump \in BOOLEAN : WritePack(name, bump)
    \/ \E name \in PackNames : \E bump \in BOOLEAN : RemovePack(name, bump)
    \/ \E oid \in QueryOids : pack_backend__exists(oid)
    \/ \E len \in MinPrefixLen..(OidLen - 1) : \E oid \in QueryOids :
          pack_backend__read_prefix(short_of(oid, len), len)

SpecPack == InitPack /\ [][NextPack]_vars

\* the names of the packs in backend->packs
LoadedNames == {pack_base(backend.packs[i]) : i \in 1..Len(backend.packs)}

\* the packs in the directory
PresentNames == {n \in PackNames : dir.files[n].present}

\* the full OIDs, over the packs of the backend, that start with the first len
\* digits of o
MatchesOverPacks(o, len) ==
    {dir.files[n].index.sha1[i] :
        <<n, i>> \in {<<m, j>> \in LoadedNames \X (1..Cardinality(BackendOids)) :
                        j \in PrefixMatches(dir.files[m].index, o, len)}}

\* C18: when the backend's packs are the packs of the directory, a prefix
\* lookup returns Ambiguous exactly when the prefix matches at least two
\* different full OIDs over all packs, and succeeds with the object when the
\* prefix matches a single object, be it stored in one pack or in two
C18_PrefixAcrossPacks ==
    (query.op = "read_prefix" /\ LoadedNames = PresentNames) =>
        LET m == MatchesOverPacks(query.short_oid, query.len)
        IN  /\ query.rc = "GIT_EAMBIGUOUSOIDPREFIX" <=> Cardinality(m) >= 2
            /\ Cardinality(m) = 1 => (query.rc = "GIT_SUCCESS" /\ query.oid \in m)

\* a query of the backend: exists, or a read by prefix
Query ==
    \/ \E oid \in QueryOids : pack_backend__exists(oid)
    \/ \E len \in MinPrefixLen..(OidLen - 1) : \E oid \in QueryOids :
          pack_backend__read_prefix(short_of(oid, len), len)

\* the objects of the packs in the directory
PresentOids ==
    UNION {{dir.files[n].index.sha1[i] : i \in 1..Len(dir.files[n].index.sha1)}
           : n \in PresentNames}

\* C19: a query that observes a directory mtime different from the recorded
\* one leaves every pack of the directory in the pack list, whatever its name
\* and whatever packs were loaded before, and exists then finds every object of
\* those packs; a query that observes an unchanged mtime leaves the pack list
\* as it was
C19_RescanLoadsNewPacks ==
    [][Query =>
          IF dir.mtime # backend.pack_folder_mtime
          THEN /\ PresentNames \subseteq LoadedNames'
               /\ (query'.op = "exists" /\ query'.short_oid \in PresentOids)
                     => query'.rc = "GIT_SUCCESS"
          ELSE /\ Len(backend'.packs) = Len(backend.packs)
               /\ \A i \in 1..Len(backend.packs) :
                     backend'.packs[i].pack_name = backend.packs[i].pack_name]_vars

\* C20: after a query that observed a changed directory mtime, no pack of the
\* pack list has had its files removed from the pack directory, and last_found
\* does not refer to such a pack
C20_RescanForgetsRemovedPacks ==
    (query.op # "none" /\ query.observed) =>
        /\ LoadedNames \subseteq PresentNames
        /\ backend.last_found # NoPack =>
              SubSeq(backend.last_found, 1, Len(backend.last_found) - Len(DotPack))
                  \in PresentNames

\* the names of backend->packs in the order of the vector, but for name
OtherPacks(b, name) ==
    SelectSeq([i \in 1..Len(b.packs) |-> b.packs[i].pack_name], LAMBDA n : n # name)

\* whether the pack name of the backend, its index mapped, holds oid
Holds(b, name, oid) ==
    \E i \in 1..Len(b.packs) :
        /\ b.packs[i].pack_name = name
        /\ b.packs[i].index_map # NoIndex
        /\ \E k \in 1..Len(b.packs[i].index_map.sha1) : b.packs[i].index_map.sha1[k] = oid

\* C27: a lookup by full OID examines last_found first and, when the OID is
\* there, returns that entry having examined no other pack; else it examines
\* the other packs in the order of the list up to the first that has the OID;
\* after a successful lookup last_found is the pack that served it, and a
\* failed lookup leaves last_found as it was
C27_LastFoundFirst ==
    [][(\E oid \in QueryOids : pack_backend__exists(oid)) =>
          LET lf   == backend.last_found
              ex   == backend'.examined
              rest == IF lf = NoPack THEN ex ELSE Tail(ex)
              all  == OtherPacks(backend', lf)
          IN  /\ lf # NoPack => (ex # <<>> /\ Head(ex) = lf)
              /\ (lf # NoPack /\ Holds(backend, lf, query'.short_oid)) =>
                    (query'.rc = "GIT_SUCCESS" /\ query'.pack = lf /\ ex = <<lf>>)
              /\ Len(rest) <= Len(all) /\ rest = SubSeq(all, 1, Len(rest))
              /\ query'.rc = "GIT_SUCCESS" =>
                    /\ ex[Len(ex)] = query'.pack
                    /\ backend'.last_found = query'.pack
              /\ query'.rc # "GIT_SUCCESS" =>
                    /\ rest = all
                    /\ backend'.last_found = lf]_vars

C27_Witness ==
    /\ query.op = "exists" /\ query.rc = "GIT_SUCCESS"
    /\ Len(backend.packs) = 2
    /\ backend.examined = <<backend.packs[2].pack_name>>
    /\ Holds(backend, backend.packs[1].pack_name, query.oid)

(* ---------------------------- SpecFaults ------------------------------- *)
\* The pack backend over a pack directory in which index files without a
\* packfile and unsound packfiles appear, and with memory allocation failing
\* at times.

\* another process writes the index file of name and no packfile
WriteIndex(name, bump) ==
    /\ ~dir.files[name].present /\ dir.files[name].mtime = 0
    /\ bump => dir.mtime < MaxMtime
    /\ LET now == IF bump THEN dir.mtime + 1 ELSE dir.mtime
       IN  dir' = [dir EXCEPT !.files[name].present = TRUE,
                              !.files[name].mtime = now,
                              !.mtime = now]
    /\ query' = NoQuery
    /\ UNCHANGED <<walkvars, cachevars, runvars, backend, enomem, diffvars>>

\* another process writes the pack name with a packfile packfile_open
\* rejects for defect
WriteBadPack(name, defect, bump) ==
    /\ ~dir.files[name].present /\ dir.files[name].mtime = 0
    /\ bump => dir.mtime < MaxMtime
    /\ LET now == IF bump THEN dir.mtime + 1 ELSE dir.mtime
       IN  dir' = [dir EXCEPT !.files[name].present = TRUE,
                              !.files[name].pack = defect,
                              !.files[name].mtime = now,
                              !.mtime = now]
    /\ query' = NoQuery
    /\ UNCHANGED <<walkvars, cachevars, runvars, backend, enomem, diffvars>>

\* memory allocation starts (fails) or ceases to fail
Memory(fails) ==
    /\ enomem # fails
    /\ enomem' = fails
    /\ query' = NoQuery
    /\ UNCHANGED <<walkvars, cachevars, runvars, dir, backend, diffvars>>

NextFaults ==
    \/ \E name \in PackNames : \E bump \in BOOLEAN : WritePack(name, bump)
    \/ \E name \in PackNames : \E bump \in BOOLEAN : WriteIndex(name, bump)
    \/ \E name \in PackNames : \E defect \in PackDefects : \E bump \in BOOLEAN :
          WriteBadPack(name, defect, bump)
    \/ \E fails \in BOOLEAN : Memory(fails)
    \/ \E oid \in QueryOids : pack_backend__exists(oid)
    \/ \E oid \in QueryOids : pack_backend__read_prefix(short_of(oid, MinPrefixLen),
                                                       MinPrefixLen)

SpecFaults == InitPack /\ [][NextFaults]_vars

\* the index files of the directory that have no packfile beside them
OrphanIndexes == {n \in PackNames : dir.files[n].present /\ dir.files[n].pack = "missing"}

\* the sound packs of the directory whose name no other index file's name
\* starts with
SoundPacks ==
    {n \in PackNames :
        /\ dir.files[n].present /\ dir.files[n].pack = "good"
        /\ \A m \in PackNames \ {n} :
              dir.files[m].present => ~(Len(m) >= Len(n) /\ SubSeq(m, 1, Len(n)) = n)}

\* C21: when an index file of the pack directory has no packfile, a query that
\* rescans the directory still loads the sound packs, records the directory's
\* mtime, and answers from the loaded packs: exists finds the objects of the
\* sound packs
C21_RescanSkipsFailingIndex ==
    [][(Query /\ dir.mtime # backend.pack_folder_mtime /\ OrphanIndexes # {} /\ ~enomem)
          => /\ backend'.pack_folder_mtime = dir.mtime
             /\ SoundPacks \subseteq LoadedNames'
             /\ (/\ query'.op = "exists"
                 /\ \E n \in SoundPacks : \E i \in 1..Len(dir.files[n].index.sha1) :
                       dir.files[n].index.sha1[i] = query'.short_oid)
                   => query'.rc = "GIT_SUCCESS"]_vars

\* C22: a lookup returns an entry from a pack only if packfile_open found the
\* pack's packfile sound (signature, version, object count, trailer hash), and
\* a pack whose packfile_open failed is left unopened (mwf.fd == -1), so that
\* the next lookup verifies it again
C22_OnlyVerifiedPacks ==
    /\ \A i \in 1..Len(backend.packs) :
          backend.packs[i].fd => backend.packs[i].verified
    /\ (query.op # "none" /\ query.rc = "GIT_SUCCESS") =>
          \E i \in 1..Len(backend.packs) :
              /\ backend.packs[i].pack_name = query.pack
              /\ backend.packs[i].verified

(* --------------------------- SpecMerge --------------------------------- *)
InitMerge ==
    /\ parents \in Dags(NumMergeCommits)
    /\ ctime \in [1..NumMergeCommits -> Times]
    /\ commits = [c \in 1..NumMergeCommits |-> commit_object]
    /\ walk = git_revwalk_new
    /\ emitted = <<>>
    /\ hidden = {}
    /\ pushed = {}
    /\ lastrc = "none"
    /\ mb = NoMerge
    /\ CacheIdle
    /\ RunIdle
    /\ DiffIdle
    /\ PackIdle

MergeBase(a, b) ==
    /\ mb = NoMerge
    /\ mb' = git_merge_base(a, b)
    /\ UNCHANGED <<parents, ctime, commits, walk, emitted, hidden, pushed, lastrc, cachevars, runvars, packvars, diffvars>>

NextMerge == \E a, b \in DOMAIN parents : MergeBase(a, b)

SpecMerge == InitMerge /\ [][NextMerge]_vars

\* C3: the commit git_merge_base returns has no proper descendant among the
\* common ancestors of its two arguments
C3_BestCommonAncestor ==
    mb.rc = "GIT_SUCCESS" =>
        \A c \in CommonAncestors(mb.one, mb.two) : mb.out \notin Ancestors(c)

\* C4: the commit git_merge_base returns is an ancestor-or-self of both arguments
C4_CommonAncestor ==
    mb.rc = "GIT_SUCCESS" => mb.out \in CommonAncestors(mb.one, mb.two)

C4_Witness ==
    /\ mb.rc = "GIT_SUCCESS"
    /\ mb.one # mb.two
    /\ mb.out \notin {mb.one, mb.two}
    /\ Cardinality(CommonAncestors(mb.one, mb.two)) > 1

(* --------------------------- SpecModified ------------------------------ *)
\* the variables of the walker, the cache and the pack backend at rest
NoDiffInit ==
    /\ parents = <<>>
    /\ ctime = <<>>
    /\ commits = <<>>
    /\ walk = git_revwalk_new
    /\ emitted = <<>>
    /\ hidden = {}
    /\ pushed = {}
    /\ lastrc = "none"
    /\ mb = NoMerge
    /\ CacheIdle
    /\ RunIdle
    /\ PackIdle

\* a git_index_entry of the given path, mode and OID
index_entry(path, mode, oid) ==
    [path |-> path, mode |-> mode, oid |-> oid, flags_extended |-> {},
     file_size |-> 1, ctime |-> 1, mtime |-> 1, dev |-> 1, ino |-> 1,
     uid |-> 1, gid |-> 1, ignored |-> FALSE]

\* the modes and the OIDs of the entries compared
EntryModes == {git_filemode.BLOB, git_filemode.BLOB_EXECUTABLE,
               git_filemode.LINK, git_filemode.COMMIT}
EntryOids  == {1, 2}

\* the repository configurations
Configs ==
    [symlinks : BOOLEAN, ignorestat : BOOLEAN, filemode : BOOLEAN,
     trustctime : BOOLEAN]

\* the outcomes of oid_for_workdir_item and of git_submodule_lookup; the OID
\* also stands for what noid holds when it was not computed
WorkdirOids == {[rc |-> 0, oid |-> 1], [rc |-> 0, oid |-> 2], [rc |-> -1, oid |-> 1]}
Submodules  == {[rc |-> 0], [rc |-> -1]}

\* two entries of one path are about to be compared; the new one comes from a
\* tree, with a known OID, or from the working directory, where the OID may
\* be unknown and the stat data are read
InitModified ==
    /\ NoDiffInit
    /\ foreach = [pc |-> "idle"]
    /\ \E omode, nmode \in EntryModes, ooid \in EntryOids, cfg \in Configs,
          fl \in {{}, {GIT_IDXENTRY_INTENT_TO_ADD}, {GIT_IDXENTRY_SKIP_WORKTREE}},
          opts \in {{GIT_DIFF_INCLUDE_UNMODIFIED},
                    {GIT_DIFF_INCLUDE_UNMODIFIED, GIT_DIFF_IGNORE_SUBMODULES}} :
       \E new_type \in {GIT_ITERATOR_TREE, GIT_ITERATOR_WORKDIR} :
       \E noid \in EntryOids \cup (IF new_type = GIT_ITERATOR_WORKDIR THEN {0} ELSE {}),
          wd \in (IF new_type = GIT_ITERATOR_WORKDIR THEN WorkdirOids
                  ELSE {[rc |-> 0, oid |-> 1]}),
          sub \in (IF new_type = GIT_ITERATOR_WORKDIR THEN Submodules
                   ELSE {[rc |-> 0]}),
          mtime \in (IF new_type = GIT_ITERATOR_WORKDIR THEN {1, 2} ELSE {1}) :
          diff = [pc |-> "compare",
                  oitem |-> [index_entry(<<"a">>, omode, ooid) EXCEPT
                                !.flags_extended = fl],
                  nitem |-> [index_entry(<<"a">>, nmode, noid) EXCEPT
                                !.mtime = mtime],
                  new_type |-> new_type, wd |-> wd, sub |-> sub,
                  d |-> git_diff_list_alloc(cfg, [flags |-> opts, pathspec |-> <<>>]),
                  status |-> "none", rc |-> 0]

\* maybe_modified on the two entries
MaybeModified ==
    /\ diff.pc = "compare"
    /\ \E r \in {maybe_modified(diff.d, diff.oitem, diff.nitem, diff.new_type,
                                 diff.wd, diff.sub)} :
          diff' = [diff EXCEPT
                      !.pc = "compared",
                      !.d = r.d,
                      !.rc = r.rc,
                      !.status = maybe_modified_status(
                                     diff.d, diff.oitem, diff.nitem, diff.new_type,
                                     diff.wd, diff.sub).status]
    /\ UNCHANGED <<walkvars, cachevars, runvars, packvars, foreach>>

NextModified == MaybeModified

SpecModified == InitModified /\ [][NextModified]_vars

\* C23: for two entries of one path whose OIDs are known, maybe_modified
\* classifies the pair as UNMODIFIED if and only if the old and the new mode
\* are equal and the old and the new OID are equal, in every repository
\* configuration and for every entry flag
C23_UnmodifiedIffEqual ==
    (/\ diff.pc = "compared"
     /\ ~git_oid_iszero(diff.oitem.oid) /\ ~git_oid_iszero(diff.nitem.oid)) =>
        (diff.status = GIT_DELTA_UNMODIFIED
            <=> /\ diff.oitem.mode = diff.nitem.mode
                /\ diff.oitem.oid = diff.nitem.oid)

(* ----------------------------- SpecDiff -------------------------------- *)
\* the paths of the entries of the trees, in the order of strcmp
TreePaths == <<(<<"a", "/", "b">>), (<<"a", "b">>), (<<"b">>)>>

\* the modes of the entries of the trees
TreeModes == {git_filemode.BLOB, git_filemode.LINK}

\* the entries of the tree that holds, for each path of the set ps, the mode
\* and the OID that c gives it, from path i on, sorted by path
RECURSIVE tree_items(_, _, _)
tree_items(ps, c, i) ==
    IF i > Len(TreePaths) THEN <<>>
    ELSE (IF i \in ps
          THEN <<index_entry(TreePaths[i], c[i].mode, c[i].oid)>> ELSE <<>>)
         \o tree_items(ps, c, i + 1)

\* git_iterator_for_tree over every tree of at most MaxTreeEntries entries
TreeIterators ==
    {[type |-> GIT_ITERATOR_TREE, items |-> tree_items(ps, c, 1)]
     : ps \in {q \in SUBSET (1..Len(TreePaths)) : Cardinality(q) <= MaxTreeEntries},
       c \in [1..Len(TreePaths) -> [mode : TreeModes, oid : EntryOids]]}

\* the pathspecs given: none, a directory, a wildcard, a negative pattern
\* before a wildcard, and a comment before a file
PathSpecs ==
    {<<>>,
     <<(<<"a">>)>>,
     <<(<<"a", "*">>)>>,
     <<(<<"!", "a", "b">>), (<<"a", "*">>)>>,
     <<(<<"#">>), (<<"b">>)>>}

\* core.symlinks, core.ignorestat, core.filemode and core.trustctime as they
\* are when the configuration does not set them
DefaultConfig ==
    [symlinks |-> TRUE, ignorestat |-> FALSE, filemode |-> TRUE,
     trustctime |-> TRUE]

\* git_diff_tree_to_tree up to the loop of diff_from_iterators, the pathspec
\* being one of pathspecs
git_diff_tree_to_tree(pathspecs) ==
    /\ NoDiffInit
    /\ foreach = [pc |-> "idle"]
    /\ \E old, new \in TreeIterators, pathspec \in pathspecs,
          flags \in SUBSET {GIT_DIFF_REVERSE, GIT_DIFF_INCLUDE_UNMODIFIED} :
          diff = walk_begin(old, new, DefaultConfig,
                            [flags |-> flags, pathspec |-> pathspec],
                            [rc |-> 0, oid |-> 1], [rc |-> 0])

InitDiff == git_diff_tree_to_tree(PathSpecs)

\* a turn of the loop for an old item not matched in new
WalkDeleted ==
    /\ walk_running(diff)
    /\ old_first(diff)
    /\ diff' = walk_deleted(diff)
    /\ UNCHANGED <<walkvars, cachevars, runvars, packvars, foreach>>

\* a turn of the loop for a new item not matched in old
WalkAdded ==
    /\ walk_running(diff)
    /\ new_first(diff)
    /\ diff' = walk_added(diff)
    /\ UNCHANGED <<walkvars, cachevars, runvars, packvars, foreach>>

\* a turn of the loop for two items of one path
WalkMatched ==
    /\ walk_running(diff)
    /\ ~old_first(diff) /\ ~new_first(diff)
    /\ diff' = walk_matched(diff)
    /\ UNCHANGED <<walkvars, cachevars, runvars, packvars, foreach>>

\* the loop is left: the iterators are freed and the diff list is returned
WalkReturn ==
    /\ diff.pc \in {"loop", "fail"}
    /\ ~walk_running(diff)
    /\ diff' = walk_return(diff)
    /\ UNCHANGED <<walkvars, cachevars, runvars, packvars, foreach>>

NextDiff == WalkDeleted \/ WalkAdded \/ WalkMatched \/ WalkReturn

SpecDiff == InitDiff /\ [][NextDiff]_vars

\* the diff list of the same trees under the same flags without a pathspec
Unrestricted ==
    diff_from_iterators(diff.old, diff.new, diff.cfg,
                        [flags |-> diff.given.flags, pathspec |-> <<>>],
                        diff.wd, diff.sub).d.deltas

\* the deltas from i on whose path matches the pathspec of the diff list
RECURSIVE MatchingDeltas(_, _)
MatchingDeltas(deltas, i) ==
    IF i > Len(deltas) THEN <<>>
    ELSE (IF diff_path_matches_pathspec(diff.d, deltas[i].old.path)
          THEN <<deltas[i]>> ELSE <<>>)
         \o MatchingDeltas(deltas, i + 1)

\* C24: the delta list of git_diff_tree_to_tree under a pathspec is the delta
\* list of the same trees without a pathspec, restricted to the deltas whose
\* path matches the pathspec: the same deltas in the same order
C24_PathspecFilters ==
    diff.pc = "returned" =>
        /\ diff.rc = 0
        /\ diff.d.deltas = MatchingDeltas(Unrestricted, 1)

\* a diff under a pathspec has kept one delta and left out another
C24_Witness ==
    /\ diff.pc = "returned"
    /\ diff.d.pathspec # <<>>
    /\ Len(diff.d.deltas) >= 1
    /\ Len(diff.d.deltas) < Len(Unrestricted)
    /\ \E i \in 1..Len(diff.d.deltas) :
          diff.d.deltas[i].status = GIT_DELTA_MODIFIED

(* --------------------------- SpecDiffLive ------------------------------ *)
\* git_diff_tree_to_tree without a pathspec
InitDiffLive == git_diff_tree_to_tree({<<>>})

\* diff_from_iterators runs on until it returns
SpecDiffLive == InitDiffLive /\ [][NextDiff]_vars /\ WF_vars(NextDiff)

\* the entry of the iterator at path p, if it has one
EntriesAt(it, p) == {e \in Range(it.items) : e.path = p}

\* the side of a delta that describes the entry e
SideOf(e) ==
    [path |-> e.path, mode |-> e.mode, oid |-> e.oid, size |-> e.file_size,
     flags |-> {GIT_DIFF_FILE_VALID_OID}]

\* the side of a delta of path p that describes no entry
NoSide(p) ==
    [path |-> p, mode |-> 0, oid |-> 0, size |-> 0,
     flags |-> {GIT_DIFF_FILE_VALID_OID}]

\* the deltas expected for the paths from the i-th on, in path order: DELETED
\* for a path of old alone, ADDED for a path of new alone, and what
\* maybe_modified makes of the two entries for a path of both
RECURSIVE ExpectedDeltas(_)
ExpectedDeltas(i) ==
    IF i > Len(TreePaths) THEN <<>>
    ELSE CHOOSE ret \in
        {(IF os # {} /\ ns = {}
          THEN <<[status |-> GIT_DELTA_DELETED,
                  old |-> SideOf(CHOOSE e \in os : TRUE),
                  new |-> NoSide(TreePaths[i])]>>
          ELSE IF os = {} /\ ns # {}
          THEN <<[status |-> GIT_DELTA_ADDED,
                  old |-> NoSide(TreePaths[i]),
                  new |-> SideOf(CHOOSE e \in ns : TRUE)]>>
          ELSE IF os # {} /\ ns # {}
          THEN maybe_modified([diff.d EXCEPT !.deltas = <<>>],
                              CHOOSE e \in os : TRUE, CHOOSE e \in ns : TRUE,
                              diff.new.type, diff.wd, diff.sub).d.deltas
          ELSE <<>>)
         \o ExpectedDeltas(i + 1)
         : os \in {EntriesAt(diff.old, TreePaths[i])},
           ns \in {EntriesAt(diff.new, TreePaths[i])}} : TRUE

\* the walk is that of the claim: old to new, every path of interest
PlainWalk == GIT_DIFF_REVERSE \notin diff.d.opts.flags /\ diff.d.pathspec = <<>>

\* the entries consumed so far are those before the present positions, each
\* once and in order; at the return both iterators are exhausted and the
\* deltas are the expected ones
WalkedOnce ==
    /\ diff.taken_old = [i \in 1..(diff.o - 1) |-> i]
    /\ diff.taken_new = [i \in 1..(diff.n - 1) |-> i]
    /\ diff.pc = "returned" =>
          /\ diff.rc = 0 /\ diff.freed
          /\ diff.o = Len(diff.old.items) + 1
          /\ diff.n = Len(diff.new.items) + 1
          /\ PlainWalk => diff.d.deltas = ExpectedDeltas(1)

\* C25: on two path-sorted entry sequences with unique paths (tree-to-tree)
\* the merge-walk of diff_from_iterators consumes every entry exactly once
\* and emits, in path order, a DELETED delta for each path of old alone, an
\* ADDED delta for each path of new alone and for each path of both what
\* maybe_modified yields; it comes to its end, with both iterators exhausted
C25_MergeWalk == []WalkedOnce /\ <>(diff.pc = "returned")

\* a walk has returned a deletion, a modification and an addition in path order
C25_Witness ==
    /\ diff.pc = "returned"
    /\ PlainWalk
    /\ Len(diff.d.deltas) = 3
    /\ diff.d.deltas[1].status = GIT_DELTA_DELETED
    /\ diff.d.deltas[2].status = GIT_DELTA_MODIFIED
    /\ diff.d.deltas[3].status = GIT_DELTA_ADDED

(* ---------------- src/tests-clar/diff/diff_helpers.c ------------------- *)
\* a callback was invoked at file f, hunk h, line l and returned ret
cb_call(fe, cb, ret) ==
    [cb |-> cb, f |-> fe.f, h |-> fe.h, l |-> fe.l, ret |-> ret]

\* goto done with the error of the iterator: the iterator is freed,
\* GIT_ITEROVER becomes 0
foreach_done(fe, error) ==
    [fe EXCEPT !.pc = "returned", !.freed = TRUE,
               !.rc = IF error = "GIT_ITEROVER" THEN "0" ELSE error]

\* goto abort: the iterator is freed, GIT_EUSER is returned
foreach_abort(fe) ==
    [fe EXCEPT !.pc = "returned", !.freed = TRUE, !.rc = "GIT_EUSER"]

\* a turn of the loop over the files: git_diff_iterator_next_file fails with
\* error, or is over, or yields a file, for which file_cb returns ret
foreach_file(fe, error, ret) ==
    IF error # "0" THEN foreach_done(fe, error)
    ELSE IF fe.f = Len(fe.files) THEN foreach_done(fe, "GIT_ITEROVER")
    ELSE CHOOSE r \in
        {IF fe.file_cb /\ ret # 0
         THEN [at EXCEPT !.pc = "abort", !.calls = Append(@, cb_call(at, "file", ret))]
         ELSE [at EXCEPT !.pc = IF ~fe.hunk_cb /\ ~fe.line_cb THEN "file" ELSE "hunk",
                         !.calls = IF fe.file_cb
                                   THEN Append(@, cb_call(at, "file", ret)) ELSE @]
         : at \in {[fe EXCEPT !.f = @ + 1, !.h = 0, !.l = 0]}} : TRUE

\* a turn of the loop over the hunks that passes over a nonzero result of
\* hunk_cb
foreach_hunk_noabort(fe, error, ret) ==
    IF error # "0" THEN foreach_done(fe, error)
    ELSE IF fe.h = Len(fe.files[fe.f]) THEN [fe EXCEPT !.pc = "file"]
    ELSE CHOOSE r \in
        {[at EXCEPT !.pc = IF ~fe.line_cb THEN "hunk" ELSE "line",
                    !.calls = IF fe.hunk_cb
                              THEN Append(@, cb_call(at, "hunk", ret)) ELSE @]
         : at \in {[fe EXCEPT !.h = @ + 1, !.l = 0]}} : TRUE

\* a turn of the loop over the hunks of the file: git_diff_iterator_next_hunk
\* fails with error, or is over, or yields a hunk, for which hunk_cb returns
\* ret
foreach_hunk(fe, error, ret) ==
    IF error # "0" THEN foreach_done(fe, error)
    ELSE IF fe.h = Len(fe.files[fe.f]) THEN [fe EXCEPT !.pc = "file"]
    ELSE CHOOSE r \in
        {IF fe.hunk_cb /\ ret # 0
         THEN [at EXCEPT !.pc = "abort", !.calls = Append(@, cb_call(at, "hunk", ret))]
         ELSE [at EXCEPT !.pc = IF ~fe.line_cb THEN "hunk" ELSE "line",
                         !.calls = IF fe.hunk_cb
                                   THEN Append(@, cb_call(at, "hunk", ret)) ELSE @]
         : at \in {[fe EXCEPT !.h = @ + 1, !.l = 0]}} : TRUE

\* a turn of the loop over the lines of the hunk: git_diff_iterator_next_line
\* fails with error, or is over, or yields a line, for which line_cb returns
\* ret
foreach_line(fe, error, ret) ==
    IF error # "0" THEN foreach_done(fe, error)
    ELSE IF fe.l = fe.files[fe.f][fe.h] THEN [fe EXCEPT !.pc = "hunk"]
    ELSE CHOOSE r \in
        {[at EXCEPT !.pc = IF ret # 0 THEN "abort" ELSE "line",
                    !.calls = Append(@, cb_call(at, "line", ret))]
         : at \in {[fe EXCEPT !.l = @ + 1]}} : TRUE

\* the diff lists iterated: the files, each the sequence of its hunks, each
\* hunk the number of its lines
RECURSIVE SeqsOver(_, _)
SeqsOver(S, n) ==
    IF n = 0 THEN {<<>>}
    ELSE SeqsOver(S, n - 1)
         \cup {Append(q, x) : q \in {t \in SeqsOver(S, n - 1) : Len(t) = n - 1},
                               x \in S}

DiffLists == SeqsOver(SeqsOver(1..MaxLines, MaxHunks), MaxFiles)

\* the errors of the iterator other than GIT_ITEROVER
IterErrors == {"GIT_ENOMEM"}

\* what a callback may return
CbResults == {0, 1}

\* diff_foreach_via_iterator is entered
InitForeach ==
    /\ NoDiffInit
    /\ diff = [pc |-> "idle"]
    /\ \E files \in DiffLists, file_cb, hunk_cb, line_cb \in BOOLEAN :
          foreach = [pc |-> "new", files |-> files, file_cb |-> file_cb,
                     hunk_cb |-> hunk_cb, line_cb |-> line_cb,
                     f |-> 0, h |-> 0, l |-> 0, calls |-> <<>>,
                     freed |-> FALSE, rc |-> "none"]

\* git_diff_iterator_new: it fails, and its error is returned, or it yields
\* the iterator
IteratorNew(error) ==
    /\ foreach.pc = "new"
    /\ foreach' = IF error # "0"
                  THEN [foreach EXCEPT !.pc = "returned", !.rc = error]
                  ELSE [foreach EXCEPT !.pc = "file"]
    /\ UNCHANGED <<walkvars, cachevars, runvars, packvars, diff>>

NextFile(error, ret) ==
    /\ foreach.pc = "file"
    /\ foreach' = foreach_file(foreach, error, ret)
    /\ UNCHANGED <<walkvars, cachevars, runvars, packvars, diff>>

NextHunk(error, ret) ==
    /\ foreach.pc = "hunk"
    /\ foreach' = foreach_hunk(foreach, error, ret)
    /\ UNCHANGED <<walkvars, cachevars, runvars, packvars, diff>>

NextLine(error, ret) ==
    /\ foreach.pc = "line"
    /\ foreach' = foreach_line(foreach, error, ret)
    /\ UNCHANGED <<walkvars, cachevars, runvars, packvars, diff>>

\* a callback has returned nonzero: the jump to abort
Abort ==
    /\ foreach.pc = "abort"
    /\ foreach' = foreach_abort(foreach)
    /\ UNCHANGED <<walkvars, cachevars, runvars, packvars, diff>>

NextForeach ==
    \/ \E error \in IterErrors \cup {"0"} : IteratorNew(error)
    \/ \E error \in IterErrors \cup {"0"}, ret \in CbResults : NextFile(error, ret)
    \/ \E error \in IterErrors \cup {"0"}, ret \in CbResults : NextHunk(error, ret)
    \/ \E error \in IterErrors \cup {"0"}, ret \in CbResults : NextLine(error, ret)
    \/ Abort

SpecForeach == InitForeach /\ [][NextForeach]_vars

\* a callback has returned a nonzero value
Aborted == \E i \in 1..Len(foreach.calls) : foreach.calls[i].ret # 0

\* the callbacks a whole traversal invokes
RECURSIVE SumSeq(_)
SumSeq(q) == IF q = <<>> THEN 0 ELSE Head(q) + SumSeq(Tail(q))

WholeTraversal ==
    /\ foreach.file_cb =>
          Cardinality({i \in 1..Len(foreach.calls) : foreach.calls[i].cb = "file"})
              = Len(foreach.files)
    /\ foreach.hunk_cb =>
          Cardinality({i \in 1..Len(foreach.calls) : foreach.calls[i].cb = "hunk"})
              = SumSeq([i \in 1..Len(foreach.files) |-> Len(foreach.files[i])])
    /\ foreach.line_cb =>
          Cardinality({i \in 1..Len(foreach.calls) : foreach.calls[i].cb = "line"})
              = SumSeq([i \in 1..Len(foreach.files) |-> SumSeq(foreach.files[i])])

\* C26: when a file, hunk or line callback returns a nonzero value during
\* diff_foreach_via_iterator the traversal stops at once: that call is the
\* last callback of any kind, the iterator is freed and GIT_EUSER is
\* returned; when no callback aborts, the exhaustion of the iterator
\* (GIT_ITEROVER) is reported as 0, after every callback was invoked
C26_CallbackAborts ==
    /\ Aborted =>
          /\ foreach.calls[Len(foreach.calls)].ret # 0
          /\ \A i \in 1..(Len(foreach.calls) - 1) : foreach.calls[i].ret = 0
          /\ foreach.pc \in {"abort", "returned"}
          /\ foreach.pc = "returned" => foreach.freed /\ foreach.rc = "GIT_EUSER"
    /\ (foreach.pc = "returned" /\ ~Aborted) =>
          /\ foreach.rc \in IterErrors \cup {"0"}
          /\ foreach.rc = "0" => foreach.freed /\ WholeTraversal
    /\ (foreach.pc = "returned" /\ foreach.rc = "GIT_EUSER") => Aborted

\* a hunk callback has aborted a traversal that had files and lines left:
\* GIT_EUSER is returned, the iterator freed
C26_Witness ==
    /\ foreach.pc = "returned"
    /\ foreach.rc = "GIT_EUSER"
    /\ foreach.freed
    /\ foreach.calls[Len(foreach.calls)].cb = "hunk"
    /\ foreach.f < Len(foreach.files)
    /\ foreach.line_cb /\ foreach.file_cb

====
